---- MODULE Spec2Model ----
(***************************************************************************)
(* Model of the sig trust-chain and policy-gate subsystem (sig-ts/src/core).*)
(*                                                                         *)
(* Strings that the code inspects character by character (paths, policy    *)
(* patterns, identities, ids) are sequences of one-character strings; the  *)
(* empty sequence is the empty string, which like undefined is falsy.      *)
(* A directory of files is a function whose domain is the set of paths     *)
(* that exist.  An optional value is a sequence of length 0 or 1.          *)
(***************************************************************************)
EXTENDS Integers, Sequences, FiniteSets, TLC

VARIABLES
  config,        \* .sig/config.json, as loadConfig returns it
  live,          \* <project>/<path>: the live artifact files
  sigMeta,       \* .sig/sigs/<path>.sig.json
  sigContent,    \* .sig/sigs/<path>.sig.content
  chains,        \* .sig/chains/<path>.chain.jsonl
  audit,         \* .sig/audit.jsonl
  csSignatures,  \* ContentStore.signatures
  csContents,    \* ContentStore.contents
  now,           \* the clock read by new Date()
  tasks,         \* the requests in progress, one record of locals each
  last,          \* the call that returned last: its arguments and result
  count,         \* calls made so far, per operation
  disturbed      \* history: a call began before every earlier call had returned

vars == <<config, live, sigMeta, sigContent, chains, audit, csSignatures,
          csContents, now, tasks, last, count, disturbed>>

----------------------------------------------------------------------------
\* Bounds of the model

MaxCalls == 3
MaxChainCalls == 5
MaxSign == 2
MaxUpdate == 2
MaxVerify == 1
MaxDelete == 1
MaxEdit == 1
MaxStoreOps == 1
MaxStoreDeletes == 1
MaxConcCalls == 3
MaxIntegrityCalls == 5
MaxWrites == 3
MaxReads == 2
MaxCorruptions == 1
MaxSourceCalls == 4
MaxEntries == 3
MaxValidateCalls == 4
MaxPatterns == 3
MaxPolicyCalls == 2
MaxVerifyCalls == 4
MaxAuditCalls == 4
MaxPersistentCalls == 4
MaxStructuralCalls == 3
MaxStoreCalls == 4
MaxApprovalCalls == 3
MaxDigestCalls == 3
MaxMcpCalls == 3
MaxPatternCalls == 2
MaxHeadCalls == 4

----------------------------------------------------------------------------
\* Values

Put(m, k, v) == (k :> v) @@ m

Remove(m, k) == [x \in DOMAIN m \ {k} |-> m[x]]

Some(x) == <<x>>

None == <<>>

SOUL == <<"s", ".", "m">>

TPL == <<"p", "/", "t">>

Files == {SOUL, TPL}

OWNER == <<"o", "a">>

ATTACKER == <<"x">>

EnvUser == <<"u">>

Identities == {OWNER, ATTACKER}

M1 == <<"m", "1">>

MessageIds == {M1}

Contents == {"c1", "c2"}

InitialContent == "c1"

EditedContent == "c3"

\* Buffer.byteLength(content, 'utf8')
byteLength(c) == CASE c = "c1" -> 2 [] c = "c2" -> 2 [] OTHER -> 4

\* sha256: a collision-free digest of the content bytes
sha256(content) == <<"hex", content>>

formatHash(hex) == <<"sha256:">> \o hex

digest(content) == formatHash(sha256(content))

----------------------------------------------------------------------------
\* policy.ts

DEFAULT_POLICY == [mutable |-> FALSE]

LastSlash(p) ==
  LET S == {i \in 1..Len(p) : p[i] = "/"}
  IN  IF S = {} THEN 0 ELSE CHOOSE i \in S : \A j \in S : j <= i

\* node:path dirname, for relative paths without a trailing separator
dirname(p) ==
  LET k == LastSlash(p)
  IN  IF k = 0 THEN <<".">> ELSE IF k = 1 THEN <<"/">> ELSE SubSeq(p, 1, k - 1)

slice(s, from) == SubSeq(s, from + 1, Len(s))

includes(s, ch) == \E i \in 1..Len(s) : s[i] = ch

indexOf(s, ch) == CHOOSE i \in 1..Len(s) : s[i] = ch /\ \A j \in 1..(i - 1) : s[j] # ch

startsWith(s, prefix) ==
  Len(prefix) <= Len(s) /\ SubSeq(s, 1, Len(prefix)) = prefix

\* new RegExp('^' + escaped + '$').test(name), each '*' having become '.*'
RECURSIVE regexTest(_, _)
regexTest(pat, name) ==
  IF pat = <<>> THEN name = <<>>
  ELSE IF Head(pat) = "*"
       THEN \E k \in 0..Len(name) : regexTest(Tail(pat), slice(name, k))
       ELSE name # <<>> /\ Head(name) = Head(pat) /\ regexTest(Tail(pat), Tail(name))

\* A match that runs the wildcard over the whole path
matchesFilePatternWholePath(pattern, filePath) ==
  IF ~includes(pattern, "*") THEN pattern = filePath
  ELSE regexTest(pattern, filePath)

matchesFilePattern(pattern, filePath) ==
  IF ~includes(pattern, "*") THEN pattern = filePath
  ELSE LET patternDir == dirname(pattern)
           fileDir == dirname(filePath)
           patternFilename ==
             slice(pattern, IF patternDir = <<".">> THEN 0 ELSE Len(patternDir) + 1)
           fileFilename ==
             slice(filePath, IF fileDir = <<".">> THEN 0 ELSE Len(fileDir) + 1)
       IN  IF patternDir # fileDir THEN FALSE
           ELSE regexTest(patternFilename, fileFilename)

\* A loop that stops at the first wildcard pattern that matches
bestGlobFirstMatch(entries, i, filePath, bestMatch, bestLength) ==
  LET matching == {k \in i..Len(entries) :
                     includes(entries[k][1], "*") /\ matchesFilePattern(entries[k][1], filePath)}
  IN  IF matching = {} THEN bestMatch
      ELSE Some(entries[CHOOSE k \in matching : \A j \in matching : k <= j][2])

\* The loop over Object.entries(config.files): entries[i] = <<pattern, policy>>
RECURSIVE bestGlob(_, _, _, _, _)
bestGlob(entries, i, filePath, bestMatch, bestLength) ==
  IF i > Len(entries) THEN bestMatch
  ELSE LET pattern == entries[i][1]
           policy == entries[i][2]
       IN  IF ~includes(pattern, "*")
           THEN bestGlob(entries, i + 1, filePath, bestMatch, bestLength)
           ELSE IF matchesFilePattern(pattern, filePath) /\ Len(pattern) > bestLength
                THEN bestGlob(entries, i + 1, filePath, Some(policy), Len(pattern))
                ELSE bestGlob(entries, i + 1, filePath, bestMatch, bestLength)

resolveFilePolicy(cfg, filePath) ==
  IF cfg.files = None THEN DEFAULT_POLICY
  ELSE LET entries == cfg.files[1]
           exact == {i \in 1..Len(entries) : entries[i][1] = filePath}
       IN  IF exact # {}
           THEN entries[CHOOSE i \in exact : TRUE][2] @@ DEFAULT_POLICY
           ELSE LET bestMatch == bestGlob(entries, 1, filePath, None, -1)
                IN  IF bestMatch # None THEN bestMatch[1] @@ DEFAULT_POLICY
                    ELSE DEFAULT_POLICY

matchesIdentityPattern(pattern, identity) ==
  IF ~includes(pattern, "*") THEN pattern = identity
  ELSE LET prefix == SubSeq(pattern, 1, indexOf(pattern, "*") - 1)
       IN  startsWith(identity, prefix)

\* policy.mutable, policy.requireSignedSource: an absent field is falsy
truthy(policy, field) == field \in DOMAIN policy /\ policy[field]

----------------------------------------------------------------------------
\* config.ts and the configurations of the model

DEFAULT_CONFIG == [version |-> 1, files |-> None, signIdentity |-> None]

CfgAuth ==
  [version |-> 1, signIdentity |-> Some(OWNER),
   files |-> Some(<<
     <<SOUL, [mutable |-> TRUE, authorizedIdentities |-> <<<<"o", "*">>>>,
              requireSignedSource |-> FALSE]>>,
     <<<<"*", ".", "m">>, [mutable |-> FALSE]>> >>)]

CfgSource ==
  [version |-> 1, signIdentity |-> None,
   files |-> Some(<<
     <<<<"*", ".", "m">>, [mutable |-> TRUE, authorizedIdentities |-> <<<<"o", "*">>>>,
                           requireSignedSource |-> TRUE, requireApproval |-> TRUE]>>,
     <<<<"*">>, [mutable |-> FALSE]>> >>)]

CfgLocked ==
  [version |-> 1, signIdentity |-> None,
   files |-> Some(<<
     <<SOUL, [mutable |-> FALSE, authorizedIdentities |-> <<<<"o", "a">>>>,
              requireSignedSource |-> TRUE]>> >>)]

Configs == {DEFAULT_CONFIG, CfgAuth, CfgSource, CfgLocked}

loadConfig(cfg) == cfg

----------------------------------------------------------------------------
\* The stores, as one record w of the files and maps a call reads and writes

World ==
  [live |-> live, sigMeta |-> sigMeta, sigContent |-> sigContent,
   chains |-> chains, audit |-> audit, csSignatures |-> csSignatures,
   csContents |-> csContents, now |-> now]

\* A log whose newest line is written in front of the others
logEventPrepend(w, entry) ==
  [w EXCEPT !.audit = <<[ts |-> w.now] @@ entry>> \o @, !.now = @ + 1]

\* audit.ts logEvent: ts is read from the clock, the line is appended
logEvent(w, entry) ==
  [w EXCEPT !.audit = Append(@, [ts |-> w.now] @@ entry), !.now = @ + 1]

\* audit.ts readAuditLog: every line, or the lines of one file when a
\* non-empty file is given
readAuditLog(w, file) ==
  IF file # <<>> THEN SelectSeq(w.audit, LAMBDA e : e.file = file) ELSE w.audit

AuditEntry(event, file, hash, identity, detail, provenance) ==
  [event |-> event, file |-> file, hash |-> hash, identity |-> identity,
   detail |-> detail, provenance |-> provenance]

\* What a record holds when its bytes are not JSON
Unparsable == [raw |-> "CORRUPTED{{{not json"]

parses(record) == "raw" \notin DOMAIN record

loadSig(w, filePath) ==
  IF filePath \notin DOMAIN w.sigMeta
  THEN [signature |-> None, error |-> Some("not-found")]
  ELSE IF ~parses(w.sigMeta[filePath])
       THEN [signature |-> None, error |-> Some("corrupted")]
       ELSE [signature |-> Some(w.sigMeta[filePath]), error |-> None]

loadSignedContent(w, filePath) ==
  IF filePath \in DOMAIN w.sigContent THEN Some(w.sigContent[filePath]) ELSE None

\* store.ts storeSig, first write: the metadata record
storeSigMeta(w, sig) == [w EXCEPT !.sigMeta = Put(@, sig.file, sig)]

\* store.ts storeSig, second write: the signed content
storeSigContent(w, filePath, content) == [w EXCEPT !.sigContent = Put(@, filePath, content)]

\* A delete that also clears the update chain kept beside the Signature
deleteSigAndChain(w, filePath) ==
  [w EXCEPT !.sigMeta = Remove(@, filePath), !.sigContent = Remove(@, filePath),
            !.chains = Remove(@, filePath)]

deleteSig(w, filePath) ==
  [w EXCEPT !.sigMeta = Remove(@, filePath), !.sigContent = Remove(@, filePath)]

\* chain.ts
\* The lines of the chain file, as they are on disk
chainLines(w, filePath) ==
  IF filePath \in DOMAIN w.chains THEN w.chains[filePath] ELSE <<>>

\* JSON.parse of every line; a line that does not parse throws and the catch
\* returns no entries
readChain(w, filePath) ==
  LET lines == chainLines(w, filePath)
  IN  IF \E i \in 1..Len(lines) : ~parses(lines[i]) THEN <<>> ELSE lines

\* An append to one chain file shared by every artifact
appendChainEntryShared(w, filePath, entry) ==
  [w EXCEPT !.chains = [f \in Files |-> Append(chainLines(w, f), entry)]]

appendChainEntry(w, filePath, entry) ==
  [w EXCEPT !.chains = Put(@, filePath, Append(chainLines(w, filePath), entry))]

getChainHead(w, filePath) ==
  LET entries == readChain(w, filePath)
  IN  IF Len(entries) > 0 THEN Some(entries[Len(entries)]) ELSE None

\* A validation whose loop starts one entry late and never compares the
\* second entry with the first
validateEntriesFromThird(entries) ==
  LET broken == {i \in 3..Len(entries) : entries[i].previousHash # entries[i - 1].hash}
  IN  IF Len(entries) = 0 THEN [valid |-> TRUE, length |-> 0, error |-> None]
      ELSE IF broken # {}
           THEN LET i == CHOOSE k \in broken : \A j \in broken : k <= j
                IN  [valid |-> FALSE, length |-> Len(entries),
                     error |-> Some(<<i - 1, entries[i - 1].hash, entries[i].previousHash>>)]
           ELSE [valid |-> TRUE, length |-> Len(entries), error |-> None]

\* validateChain over the entries read; error names the 0-based index
validateEntries(entries) ==
  LET broken == {i \in 2..Len(entries) : entries[i].previousHash # entries[i - 1].hash}
  IN  IF Len(entries) = 0 THEN [valid |-> TRUE, length |-> 0, error |-> None]
      ELSE IF broken # {}
           THEN LET i == CHOOSE k \in broken : \A j \in broken : k <= j
                IN  [valid |-> FALSE, length |-> Len(entries),
                     error |-> Some(<<i - 1, entries[i - 1].hash, entries[i].previousHash>>)]
           ELSE [valid |-> TRUE, length |-> Len(entries), error |-> None]

validateChain(w, filePath) == validateEntries(readChain(w, filePath))

\* content.ts ContentStore
\* A sign that keeps what the id already holds
contentStoreSignFirstWins(w, content, id, identity) ==
  IF id \in DOMAIN w.csSignatures THEN [w EXCEPT !.now = @ + 1]
  ELSE [w EXCEPT !.csSignatures =
                   Put(@, id, [id |-> id, hash |-> digest(content), algorithm |-> "sha256",
                               signedBy |-> identity, signedAt |-> w.now,
                               contentLength |-> byteLength(content)]),
                 !.csContents = Put(@, id, content),
                 !.now = @ + 1]

contentStoreSign(w, content, id, identity) ==
  [w EXCEPT !.csSignatures =
              Put(@, id, [id |-> id, hash |-> digest(content), algorithm |-> "sha256",
                          signedBy |-> identity, signedAt |-> w.now,
                          contentLength |-> byteLength(content)]),
            !.csContents = Put(@, id, content),
            !.now = @ + 1]

verifyContent(content, signature) ==
  IF digest(content) # signature.hash
  THEN [verified |-> FALSE, error |-> Some("Content hash mismatch")]
  ELSE [verified |-> TRUE, error |-> None]

contentStoreVerify(w, id) ==
  IF id \notin DOMAIN w.csSignatures
  THEN [verified |-> FALSE, id |-> id, error |-> Some("No signature found for id")]
  ELSE IF id \notin DOMAIN w.csContents
       THEN [verified |-> FALSE, id |-> id, error |-> Some("No content found for id")]
       ELSE LET result == verifyContent(w.csContents[id], w.csSignatures[id])
            IN  IF ~result.verified
                THEN [verified |-> FALSE, id |-> id, error |-> result.error]
                ELSE [verified |-> TRUE, id |-> id, error |-> None]

\* The content and signature a verified result carries
contentStoreVerified(w, id) ==
  IF contentStoreVerify(w, id).verified
  THEN [content |-> Some(w.csContents[id]), signature |-> Some(w.csSignatures[id])]
  ELSE [content |-> None, signature |-> None]

contentStoreGet(w, id) ==
  IF id \in DOMAIN w.csSignatures THEN Some(w.csSignatures[id]) ELSE None

\* A delete that forgets the signature and keeps the content
contentStoreDeleteSignatureOnly(w, id) ==
  [w EXCEPT !.csSignatures = Remove(@, id)]

contentStoreDelete(w, id) ==
  [w EXCEPT !.csSignatures = Remove(@, id), !.csContents = Remove(@, id)]

contentStoreClear(w) == [w EXCEPT !.csSignatures = <<>>, !.csContents = <<>>]

contentStoreHas(w, id) == id \in DOMAIN w.csSignatures

contentStoreSize(w) == Cardinality(DOMAIN w.csSignatures)

----------------------------------------------------------------------------
\* verify.ts verifyFile, as one read-verify pass over w: the stores after the
\* call (the audit line it appends) and the VerifyResult it returns

\* paths.ts: path.resolve and path.relative on '/'-separated paths
RECURSIVE splitPath(_)
splitPath(path) ==
  IF ~includes(path, "/") THEN <<path>>
  ELSE LET i == indexOf(path, "/")
       IN  <<SubSeq(path, 1, i - 1)>> \o splitPath(SubSeq(path, i + 1, Len(path)))

RECURSIVE normalize(_, _)
normalize(done, segments) ==
  IF segments = <<>> THEN done
  ELSE LET seg == Head(segments)
           rest == Tail(segments)
       IN  IF seg = <<>> \/ seg = <<".">> THEN normalize(done, rest)
           ELSE IF seg = <<".", ".">> /\ done # <<>> /\ done[Len(done)] # <<".", ".">>
           THEN normalize(SubSeq(done, 1, Len(done) - 1), rest)
           ELSE normalize(Append(done, seg), rest)

RECURSIVE joinPath(_)
joinPath(segments) ==
  IF segments = <<>> THEN <<>>
  ELSE IF Len(segments) = 1 THEN segments[1]
  ELSE segments[1] \o <<"/">> \o joinPath(Tail(segments))

\* The path relative to the project root, or None when the call throws
\* 'Path escapes project root'
resolveContainedPath(filePath) ==
  LET relPath == joinPath(normalize(<<>>, splitPath(filePath)))
  IN  IF startsWith(relPath, <<".", ".">>) THEN None ELSE Some(relPath)

\* store.ts PersistentContentStore
includesDotDot(id) == \E i \in 1..(Len(id) - 1) : id[i] = "." /\ id[i + 1] = "."

\* A check that only asks for an id
ensureValidIdNonEmpty(id) == id # <<>>

ensureValidId(id) ==
  /\ id # <<>>
  /\ ~includes(id, "/")
  /\ ~includes(id, "\\")
  /\ ~includesDotDot(id)
  /\ ~includes(id, "NUL")

metaPath(id) == <<"content/">> \o id

auditFile(id) == <<"content:">> \o id

\* A sign whose digest covers the signer as well as the content
persistentSignSalted(w, content, id, identity) ==
  LET signature == [id |-> id, hash |-> formatHash(sha256(<<identity, content>>)),
                    algorithm |-> "sha256",
                    signedBy |-> identity, signedAt |-> w.now,
                    contentLength |-> byteLength(content)]
      w1 == [w EXCEPT !.csSignatures = Put(@, metaPath(id), signature),
                      !.csContents = Put(@, metaPath(id), content),
                      !.now = @ + 1]
  IN  logEvent(w1, AuditEntry("sign", auditFile(id), signature.hash, identity, None, None))

persistentSign(w, content, id, identity) ==
  LET signature == [id |-> id, hash |-> digest(content), algorithm |-> "sha256",
                    signedBy |-> identity, signedAt |-> w.now,
                    contentLength |-> byteLength(content)]
      w1 == [w EXCEPT !.csSignatures = Put(@, metaPath(id), signature),
                      !.csContents = Put(@, metaPath(id), content),
                      !.now = @ + 1]
  IN  logEvent(w1, AuditEntry("sign", auditFile(id), signature.hash, identity, None, None))

logVerifyFailure(w, id, reason) ==
  logEvent(w, AuditEntry("verify-fail", auditFile(id), <<>>, <<>>, Some(<<reason>>), None))

\* PersistentContentStore.load: the record when it is there and is a valid
\* ContentSignature, null otherwise
persistentLoad(w, id) ==
  IF metaPath(id) \in DOMAIN w.csSignatures /\ parses(w.csSignatures[metaPath(id)])
  THEN Some(w.csSignatures[metaPath(id)])
  ELSE None

persistentLoadContent(w, id) ==
  IF metaPath(id) \in DOMAIN w.csContents THEN Some(w.csContents[metaPath(id)]) ELSE None

VerifyFailed(id, message) ==
  [verified |-> FALSE, id |-> id, error |-> Some(message), content |-> None,
   signature |-> None]

\* PersistentContentStore.verify(id, {content}); content is None when the
\* caller supplies none
\* A verify that trusts whatever records it finds
persistentVerifyUnchecked(w, id, content) ==
  IF ~ensureValidId(id)
  THEN [w |-> w, thrown |-> Some("Invalid content ID"),
        result |-> VerifyFailed(id, "Invalid content ID")]
  ELSE IF persistentLoad(w, id) = None \/ persistentLoadContent(w, id) = None
  THEN [w |-> logVerifyFailure(w, id, "No signature found for id"), thrown |-> None,
        result |-> VerifyFailed(id, "No signature found for id")]
  ELSE [w |-> logEvent(w, AuditEntry("verify", auditFile(id), persistentLoad(w, id)[1].hash,
                                     <<>>, None, None)),
        thrown |-> None,
        result |-> [verified |-> TRUE, id |-> id, error |-> None,
                    content |-> persistentLoadContent(w, id),
                    signature |-> persistentLoad(w, id)]]

persistentVerifyWith(w, id, content) ==
  IF ~ensureValidId(id)
  THEN [w |-> w, thrown |-> Some("Invalid content ID"),
        result |-> VerifyFailed(id, "Invalid content ID")]
  ELSE IF persistentLoad(w, id) = None
  THEN [w |-> logVerifyFailure(w, id, "No signature found for id"), thrown |-> None,
        result |-> VerifyFailed(id, "No signature found for id")]
  ELSE IF persistentLoadContent(w, id) = None
  THEN [w |-> logVerifyFailure(w, id, "No content found for id"), thrown |-> None,
        result |-> VerifyFailed(id, "No content found for id")]
  ELSE LET signature == persistentLoad(w, id)[1]
           storedContent == persistentLoadContent(w, id)[1]
           storedCheck == verifyContent(storedContent, signature)
           inputCheck == verifyContent(content[1], signature)
       IN  IF ~storedCheck.verified
           THEN [w |-> logVerifyFailure(w, id, storedCheck.error[1]), thrown |-> None,
                 result |-> VerifyFailed(id, storedCheck.error[1])]
           ELSE IF content # None /\ ~inputCheck.verified
           THEN [w |-> logVerifyFailure(w, id, inputCheck.error[1]), thrown |-> None,
                 result |-> VerifyFailed(id, inputCheck.error[1])]
           ELSE [w |-> logEvent(w, AuditEntry("verify", auditFile(id), signature.hash,
                                              <<>>, None, None)),
                 thrown |-> None,
                 result |-> [verified |-> TRUE, id |-> id, error |-> None,
                             content |-> Some(storedContent),
                             signature |-> Some(signature)]]

persistentVerify(w, id) == persistentVerifyWith(w, id, None)

\* A signIfChanged that signs whatever it is given
signIfChangedAlwaysSigns(w, content, id, identity) ==
  LET w1 == persistentSign(w, content, id, identity)
  IN  [w |-> w1, signature |-> w1.csSignatures[metaPath(id)]]

\* PersistentContentStore.signIfChanged, for a valid id
signIfChanged(w, content, id, identity) ==
  LET existing == persistentLoad(w, id)
      nextHash == formatHash(sha256(content))
  IN  IF existing # None /\ existing[1].hash = nextHash
      THEN [w |-> IF persistentLoadContent(w, id) = None
                  THEN [w EXCEPT !.csContents = Put(@, metaPath(id), content)]
                  ELSE w,
            signature |-> existing[1]]
      ELSE LET w1 == persistentSign(w, content, id, identity)
           IN  [w |-> w1, signature |-> w1.csSignatures[metaPath(id)]]

\* PersistentContentStore.delete, for a valid id
persistentDelete(w, id) ==
  [w EXCEPT !.csSignatures = Remove(@, metaPath(id)),
            !.csContents = Remove(@, metaPath(id))]

NoResult ==
  [verified |-> FALSE, template |-> None, hash |-> <<>>, signedBy |-> <<>>,
   signedAt |-> None, error |-> None, chain |-> None]

\* A verification that logs every comparison as a 'verify' event
verifyEventAlwaysVerify(verified) == "verify"

\* The event logged for the comparison of the live digest with the Signature
verifyEvent(verified) == IF verified THEN "verify" ELSE "verify-fail"

verifyFile(w, filePath) ==
  LET loaded == loadSig(w, filePath)
  IN  IF loaded.signature = None
      THEN LET detail == IF loaded.error = Some("corrupted")
                         THEN "Signature file is corrupted or tampered with"
                         ELSE "No signature found"
           IN  [w |-> logEvent(w, AuditEntry("verify-fail", filePath, <<>>, <<>>,
                                             Some(<<detail>>), None)),
                result |-> [file |-> filePath, error |-> Some(detail)] @@ NoResult]
      ELSE IF filePath \notin DOMAIN w.live
      THEN [w |-> logEvent(w, AuditEntry("verify-fail", filePath, <<>>, <<>>,
                                         Some(<<"File not found">>), None)),
            result |-> [file |-> filePath, error |-> Some("File not found")] @@ NoResult]
      ELSE
        LET sig == loaded.signature[1]
            content == w.live[filePath]
            currentHash == digest(content)
            verified == (currentHash = sig.hash)
            w1 == IF verifyEvent(verified) = "verify"
                  THEN logEvent(w, AuditEntry("verify", filePath, currentHash, <<>>,
                                              None, None))
                  ELSE logEvent(w, AuditEntry("verify-fail", filePath, currentHash, <<>>,
                                              Some(<<"Expected", sig.hash, currentHash>>),
                                              None))
            stored == loadSignedContent(w1, filePath)
            signedContent == IF verified
                             THEN (IF stored # None THEN stored ELSE Some(content))
                             ELSE None
            chainValidation == validateChain(w1, filePath)
            head == getChainHead(w1, filePath)
            chain == IF chainValidation.length > 0
                     THEN Some([length |-> chainValidation.length,
                                valid |-> chainValidation.valid,
                                lastUpdatedBy |-> head[1].signedBy,
                                lastUpdatedAt |-> head[1].signedAt])
                     ELSE None
        IN  [w |-> w1,
             result |-> [verified |-> verified, file |-> filePath,
                         template |-> signedContent, hash |-> currentHash,
                         signedBy |-> sig.signedBy, signedAt |-> Some(sig.signedAt),
                         error |-> IF verified THEN None
                                   ELSE Some("Content has been modified since signing"),
                         chain |-> chain]]

\* verify.ts checkFile: the status of one file, nothing is logged
checkFile(w, filePath) ==
  LET loaded == loadSig(w, filePath)
  IN  IF loaded.signature = None
      THEN [file |-> filePath,
            status |-> IF loaded.error = Some("corrupted") THEN "corrupted" ELSE "unsigned",
            signature |-> None]
      ELSE IF filePath \notin DOMAIN w.live
      THEN [file |-> filePath, status |-> "modified", signature |-> loaded.signature]
      ELSE IF digest(w.live[filePath]) = loaded.signature[1].hash
      THEN [file |-> filePath, status |-> "signed", signature |-> loaded.signature]
      ELSE [file |-> filePath, status |-> "modified", signature |-> loaded.signature]

----------------------------------------------------------------------------
\* sign.ts signFile, one step per await; t holds the call's locals

NewSign(filePath, identity) ==
  [op |-> "signFile", pc |-> "s_read", file |-> filePath, identity |-> identity,
   sig |-> None, content |-> None, result |-> None]

defaultIdentity == EnvUser

signStep(w, cfg, t) ==
  CASE t.pc = "s_read" ->
         IF t.file \notin DOMAIN w.live
         THEN [w |-> w, t |-> [t EXCEPT !.pc = "done", !.result = Some("ENOENT")]]
         ELSE LET content == w.live[t.file]
                  identity == IF t.identity # <<>> THEN t.identity
                              ELSE IF loadConfig(cfg).signIdentity # None
                                   THEN loadConfig(cfg).signIdentity[1]
                                   ELSE defaultIdentity
                  sig == [file |-> t.file, hash |-> formatHash(sha256(content)),
                          algorithm |-> "sha256", signedBy |-> identity,
                          signedAt |-> w.now, contentLength |-> byteLength(content)]
              IN  [w |-> [w EXCEPT !.now = @ + 1],
                   t |-> [t EXCEPT !.pc = "s_storeMeta", !.sig = Some(sig),
                                   !.content = Some(content)]]
    [] t.pc = "s_storeMeta" ->
         [w |-> storeSigMeta(w, t.sig[1]), t |-> [t EXCEPT !.pc = "s_storeContent"]]
    [] t.pc = "s_storeContent" ->
         [w |-> storeSigContent(w, t.file, t.content[1]), t |-> [t EXCEPT !.pc = "s_audit"]]
    [] t.pc = "s_audit" ->
         [w |-> logEvent(w, AuditEntry("sign", t.file, t.sig[1].hash, t.sig[1].signedBy,
                                       None, None)),
          t |-> [t EXCEPT !.pc = "done", !.result = t.sig]]

----------------------------------------------------------------------------
\* update.ts updateAndSign, one step per await; t holds the call's locals

NewUpdate(filePath, newContent, identity, provenance, contentStore) ==
  [op |-> "updateAndSign", pc |-> "u_policy", file |-> filePath,
   newContent |-> newContent, identity |-> identity, provenance |-> provenance,
   contentStore |-> contentStore, policy |-> DEFAULT_POLICY, existingSig |-> None,
   chainEntry |-> None, chainLength |-> 0, denial |-> None, result |-> None,
   persistent |-> FALSE]

\* A call whose contentStore option is absent, a ContentStore or a
\* PersistentContentStore
NewUpdateVia(filePath, newContent, identity, provenance, store) ==
  [NewUpdate(filePath, newContent, identity, provenance, store # "none")
     EXCEPT !.persistent = (store = "persistent")]


Deny(t, code, detail) ==
  [t EXCEPT !.pc = "u_deny", !.denial = Some([code |-> code, detail |-> detail])]

\* A structural error turned into a source_verification_failed denial
ThrowAsDenial(t, message) == Deny(t, "source_verification_failed", <<message>>)

\* The call rejects with an error instead of returning a result
Throw(t, message) == [t EXCEPT !.pc = "done", !.result = Some([thrown |-> message])]

authorizedIdentities(policy) ==
  IF "authorizedIdentities" \in DOMAIN policy THEN policy.authorizedIdentities ELSE <<>>

\* A gate that never looks at policy.mutable
updatePolicyAnyFile(w, cfg, t) ==
  [w |-> w,
   t |-> [t EXCEPT !.pc = "u_loadSig",
                   !.policy = resolveFilePolicy(loadConfig(cfg), t.file)]]

\* A gate that refuses a file whose policy asks for approval
updatePolicyEnforcesApproval(w, cfg, t) ==
  LET policy == resolveFilePolicy(loadConfig(cfg), t.file)
  IN  IF ~truthy(policy, "mutable") \/ truthy(policy, "requireApproval")
      THEN [w |-> w, t |-> Deny(t, "not_mutable", <<"File is not mutable">>)]
      ELSE [w |-> w, t |-> [t EXCEPT !.pc = "u_loadSig", !.policy = policy]]

\* Stage 1: the policy is resolved and must be mutable
updatePolicy(w, cfg, t) ==
  LET policy == resolveFilePolicy(loadConfig(cfg), t.file)
  IN  IF ~truthy(policy, "mutable")
      THEN [w |-> w, t |-> Deny(t, "not_mutable", <<"File is not mutable">>)]
      ELSE [w |-> w, t |-> [t EXCEPT !.pc = "u_loadSig", !.policy = policy]]

\* A gate that matches the identity before it looks for the Signature
updateLoadSigIdentityFirst(w, cfg, t) ==
  LET existingSig == loadSig(w, t.file).signature
      allowed == authorizedIdentities(t.policy)
  IN  IF Len(allowed) > 0
         /\ ~\E i \in 1..Len(allowed) : matchesIdentityPattern(allowed[i], t.identity)
      THEN [w |-> w, t |-> Deny([t EXCEPT !.existingSig = existingSig],
                                "unauthorized_identity",
                                <<"Identity not authorized. Allowed:", allowed>>)]
      ELSE IF existingSig = None
           THEN [w |-> w, t |-> Deny(t, "not_signed", <<"File has no existing signature">>)]
           ELSE [w |-> w, t |-> [t EXCEPT !.pc = "u_source", !.existingSig = existingSig]]

\* Stages 2 and 3: the head Signature is read, the identity is matched
updateLoadSig(w, cfg, t) ==
  LET existingSig == loadSig(w, t.file).signature
      allowed == authorizedIdentities(t.policy)
  IN  IF existingSig = None
      THEN [w |-> w, t |-> Deny(t, "not_signed", <<"File has no existing signature">>)]
      ELSE IF Len(allowed) > 0
              /\ ~\E i \in 1..Len(allowed) : matchesIdentityPattern(allowed[i], t.identity)
           THEN [w |-> w, t |-> Deny([t EXCEPT !.existingSig = existingSig],
                                     "unauthorized_identity",
                                     <<"Identity not authorized. Allowed:", allowed>>)]
           ELSE [w |-> w, t |-> [t EXCEPT !.pc = "u_source", !.existingSig = existingSig]]

\* The chain entry is built once the checks have passed
updatePass(w, t) ==
  LET chainEntry == [hash |-> formatHash(sha256(t.newContent)),
                     previousHash |-> t.existingSig[1].hash,
                     signedBy |-> t.identity, signedAt |-> w.now,
                     contentLength |-> byteLength(t.newContent),
                     provenance |-> t.provenance]
  IN  [w |-> [w EXCEPT !.now = @ + 1],
       t |-> [t EXCEPT !.pc = "u_writeFile", !.chainEntry = Some(chainEntry)]]

\* A pipeline that never looks at the provenance source
updateSourceUnchecked(w, cfg, t) == updatePass(w, t)

\* Stage 4: the provenance source is validated
updateSource(w, cfg, t) ==
  LET sourceType == t.provenance.sourceType
      sourceId == t.provenance.sourceId
  IN  IF ~truthy(t.policy, "requireSignedSource") THEN updatePass(w, t)
      ELSE IF sourceType = "signed_message"
      THEN IF sourceId = <<>>
           THEN [w |-> w, t |-> Deny(t, "unsigned_source",
                                     <<"No sourceId provided for signed_message provenance">>)]
           ELSE IF t.contentStore /\ t.persistent
                THEN LET verifyResult == persistentVerify(w, sourceId)
                     IN  IF verifyResult.thrown # None
                         THEN [w |-> w, t |-> Throw(t, verifyResult.thrown[1])]
                         ELSE IF ~verifyResult.result.verified
                         THEN [w |-> verifyResult.w,
                               t |-> Deny(t, "source_verification_failed",
                                          <<"ContentStore verification failed", sourceId>>)]
                         ELSE updatePass(verifyResult.w, t)
           ELSE IF t.contentStore /\ ~contentStoreVerify(w, sourceId).verified
                THEN [w |-> w, t |-> Deny(t, "source_verification_failed",
                                          <<"ContentStore verification failed", sourceId>>)]
                ELSE updatePass(w, t)
      ELSE IF sourceType = "signed_template"
      THEN IF sourceId = <<>>
           THEN [w |-> w, t |-> Deny(t, "unsigned_source",
                                     <<"No sourceId provided for signed_template provenance">>)]
           ELSE IF resolveContainedPath(sourceId) = None
           THEN [w |-> w, t |-> Throw(t, "Path escapes project root")]
           ELSE LET templateResult == verifyFile(w, resolveContainedPath(sourceId)[1])
                IN  IF ~templateResult.result.verified
                    THEN [w |-> templateResult.w,
                          t |-> Deny(t, "source_verification_failed",
                                     <<"Template verification failed", sourceId>>)]
                    ELSE updatePass(templateResult.w, t)
      ELSE updatePass(w, t)

\* A denial that has already overwritten the live file when it is logged
updateDenyAfterWrite(w, t) ==
  [w |-> logEvent([w EXCEPT !.live = Put(@, t.file, t.newContent)],
                  AuditEntry("update_denied", t.file, <<>>, t.identity,
                             Some(t.denial[1].detail), Some(t.provenance))),
   t |-> [t EXCEPT !.pc = "done",
                   !.result = Some([approved |-> FALSE, file |-> t.file,
                                    code |-> t.denial[1].code])]]

\* A denial logged without the provenance that was attempted
updateDenyNoProvenance(w, t) ==
  [w |-> logEvent(w, AuditEntry("update_denied", t.file, <<>>, t.identity,
                                Some(t.denial[1].detail), None)),
   t |-> [t EXCEPT !.pc = "done",
                   !.result = Some([approved |-> FALSE, file |-> t.file,
                                    code |-> t.denial[1].code])]]

updateDeny(w, t) ==
  [w |-> logEvent(w, AuditEntry("update_denied", t.file, <<>>, t.identity,
                                Some(t.denial[1].detail), Some(t.provenance))),
   t |-> [t EXCEPT !.pc = "done",
                   !.result = Some([approved |-> FALSE, file |-> t.file,
                                    code |-> t.denial[1].code])]]

\* Stage 5, first write: the live artifact file
\* A commit that leaves the live file for the caller to write
updateWriteFileSkipped(w, t) == [w |-> w, t |-> [t EXCEPT !.pc = "u_storeMeta"]]

updateWriteFile(w, t) ==
  [w |-> [w EXCEPT !.live = Put(@, t.file, t.newContent)],
   t |-> [t EXCEPT !.pc = "u_storeMeta"]]

newSig(t) ==
  [file |-> t.file, hash |-> t.chainEntry[1].hash, algorithm |-> "sha256",
   signedBy |-> t.identity, signedAt |-> t.chainEntry[1].signedAt,
   contentLength |-> t.chainEntry[1].contentLength]

\* A commit that does not move the Signature record to the new digest
updateStoreMetaSkipped(w, t) == [w |-> w, t |-> [t EXCEPT !.pc = "u_storeContent"]]

updateStoreMeta(w, t) ==
  [w |-> storeSigMeta(w, newSig(t)), t |-> [t EXCEPT !.pc = "u_storeContent"]]

\* A commit that rewrites the Signature record but not the stored signed content
updateStoreContentSkipped(w, t) == [w |-> w, t |-> [t EXCEPT !.pc = "u_append"]]

updateStoreContent(w, t) ==
  [w |-> storeSigContent(w, t.file, t.newContent), t |-> [t EXCEPT !.pc = "u_append"]]

\* A commit that adds no entry when the digest stays the same
updateAppendOnChange(w, t) ==
  [w |-> IF t.chainEntry[1].hash = t.chainEntry[1].previousHash THEN w
         ELSE appendChainEntry(w, t.file, t.chainEntry[1]),
   t |-> [t EXCEPT !.pc = "u_readChain"]]

updateAppend(w, t) ==
  [w |-> appendChainEntry(w, t.file, t.chainEntry[1]),
   t |-> [t EXCEPT !.pc = "u_readChain"]]

updateReadChain(w, t) ==
  [w |-> w, t |-> [t EXCEPT !.pc = "u_audit", !.chainLength = Len(readChain(w, t.file))]]

updateAudit(w, t) ==
  [w |-> logEvent(w, AuditEntry("update", t.file, t.chainEntry[1].hash, t.identity,
                                Some(<<t.provenance.reason>>), Some(t.provenance))),
   t |-> [t EXCEPT !.pc = "done",
                   !.result = Some([approved |-> TRUE, file |-> t.file,
                                    hash |-> t.chainEntry[1].hash,
                                    previousHash |-> t.existingSig[1].hash,
                                    chainLength |-> t.chainLength])]]

updateStep(w, cfg, t) ==
  CASE t.pc = "u_policy" -> updatePolicy(w, cfg, t)
    [] t.pc = "u_loadSig" -> updateLoadSig(w, cfg, t)
    [] t.pc = "u_source" -> updateSource(w, cfg, t)
    [] t.pc = "u_deny" -> updateDeny(w, t)
    [] t.pc = "u_writeFile" -> updateWriteFile(w, t)
    [] t.pc = "u_storeMeta" -> updateStoreMeta(w, t)
    [] t.pc = "u_storeContent" -> updateStoreContent(w, t)
    [] t.pc = "u_append" -> updateAppend(w, t)
    [] t.pc = "u_readChain" -> updateReadChain(w, t)
    [] t.pc = "u_audit" -> updateAudit(w, t)

Step(w, cfg, t) ==
  IF t.op = "signFile" THEN signStep(w, cfg, t) ELSE updateStep(w, cfg, t)

\* A call that runs from its first step to its return with nothing in between
RECURSIVE RunToEnd(_, _, _)
RunToEnd(w, cfg, t) ==
  IF t.pc = "done" THEN [w |-> w, t |-> t]
  ELSE LET r == Step(w, cfg, t) IN RunToEnd(r.w, cfg, r.t)

signFile(w, cfg, filePath, identity) == RunToEnd(w, cfg, NewSign(filePath, identity))

updateAndSign(w, cfg, filePath, newContent, identity, provenance, contentStore) ==
  RunToEnd(w, cfg, NewUpdate(filePath, newContent, identity, provenance, contentStore))

----------------------------------------------------------------------------
\* The inputs of the model

NoIdentity == <<>>

Provenance(sourceType, sourceId) ==
  [sourceType |-> sourceType, sourceId |-> sourceId, reason |-> "reason"]

Provenances ==
  {Provenance("signed_message", <<>>), Provenance("signed_message", M1),
   Provenance("signed_template", <<>>), Provenance("signed_template", TPL),
   Provenance("signed_template", SOUL)}

UpdateTargets == {SOUL}

SignIdentities == {NoIdentity, OWNER}

\* A content store handle is only ever read for signed_message provenance
Handles(provenance) ==
  IF provenance.sourceType = "signed_message" THEN BOOLEAN ELSE {FALSE}

ConcProvenance == Provenance("signed_message", M1)

Tasks == {1, 2}

Idle == [op |-> "idle", pc |-> "done"]

InProgress(t) == tasks[t].pc \notin {"done", "interrupted"}

SetWorld(w) ==
  /\ live' = w.live
  /\ sigMeta' = w.sigMeta
  /\ sigContent' = w.sigContent
  /\ chains' = w.chains
  /\ audit' = w.audit
  /\ csSignatures' = w.csSignatures
  /\ csContents' = w.csContents
  /\ now' = w.now

\* The bound on the calls of one operation and on the calls of a run
Budget(op, max, total) ==
  /\ count[op] < max
  /\ count.calls < total
  /\ count' = [count EXCEPT ![op] = @ + 1, !.calls = @ + 1]

\* What a finished call leaves for its caller to look at: the value returned
\* and, for updateAndSign, the options the caller passed
Outcome(op, result) == [op |-> op, result |-> result, options |-> None]

Returned(t) ==
  [op |-> t.op, result |-> t.result,
   options |-> IF t.op = "updateAndSign"
               THEN Some([identity |-> t.identity, provenance |-> t.provenance,
                          contentStore |-> t.contentStore,
                          persistent |-> t.persistent, file |-> t.file])
               ELSE None]

InitStores ==
  /\ live = [f \in Files |-> InitialContent]
  /\ sigMeta = <<>>
  /\ sigContent = <<>>
  /\ chains = <<>>
  /\ audit = <<>>
  /\ csSignatures = <<>>
  /\ csContents = <<>>
  /\ now = 0
  /\ tasks = [t \in Tasks |-> Idle]
  /\ last = Outcome("init", None)
  /\ count = [sign |-> 0, update |-> 0, verify |-> 0, delete |-> 0, edit |-> 0,
              store |-> 0, storeDelete |-> 0, write |-> 0, read |-> 0,
              corrupt |-> 0, calls |-> 0]
  /\ disturbed = FALSE

Init == config \in Configs /\ InitStores

----------------------------------------------------------------------------
\* Calls made one at a time, each running to its return

SignFile(filePath, identity) ==
  /\ LET r == signFile(World, config, filePath, identity)
     IN  SetWorld(r.w) /\ last' = Returned(r.t)
  /\ UNCHANGED <<config, tasks, disturbed>>

UpdateAndSign(filePath, newContent, identity, provenance, contentStore) ==
  /\ LET r == updateAndSign(World, config, filePath, newContent, identity, provenance,
                            contentStore)
     IN  SetWorld(r.w) /\ last' = Returned(r.t)
  /\ UNCHANGED <<config, tasks, disturbed>>

VerifyFile(filePath) ==
  /\ LET r == verifyFile(World, filePath)
     IN  /\ SetWorld(r.w)
         /\ last' = Outcome("verifyFile", Some(r.result))
  /\ UNCHANGED <<config, tasks, disturbed>>

DeleteSig(filePath) ==
  /\ SetWorld(deleteSig(World, filePath))
  /\ last' = Outcome("deleteSig", None)
  /\ UNCHANGED <<config, tasks, disturbed>>

ContentStoreSign(id, content, identity) ==
  /\ SetWorld(contentStoreSign(World, content, id, identity))
  /\ last' = Outcome("contentStore.sign", None)
  /\ UNCHANGED <<config, tasks, disturbed>>

ContentStoreDelete(id) ==
  /\ SetWorld(contentStoreDelete(World, id))
  /\ last' = Outcome("contentStore.delete", Some([hadSig |-> id \in DOMAIN csSignatures]))
  /\ UNCHANGED <<config, tasks, disturbed>>

\* The environment: an edit of a live artifact made outside the library
ExternalEdit(filePath) ==
  /\ live' = Put(live, filePath, EditedContent)
  /\ last' = Outcome("edit", None)
  /\ UNCHANGED <<config, sigMeta, sigContent, chains, audit, csSignatures, csContents,
                 now, tasks, disturbed>>

Next ==
  \/ \E f \in Files, id \in SignIdentities :
       Budget("sign", MaxSign, MaxCalls) /\ SignFile(f, id)
  \/ \E f \in UpdateTargets, c \in Contents, id \in Identities, p \in Provenances :
     \E cs \in Handles(p) :
       Budget("update", MaxUpdate, MaxCalls) /\ UpdateAndSign(f, c, id, p, cs)
  \/ \E f \in Files : Budget("verify", MaxVerify, MaxCalls) /\ VerifyFile(f)
  \/ \E f \in Files : Budget("delete", MaxDelete, MaxCalls) /\ DeleteSig(f)
  \/ \E id \in MessageIds :
       Budget("store", MaxStoreOps, MaxCalls) /\ ContentStoreSign(id, "c1", OWNER)
  \/ \E id \in MessageIds :
       Budget("storeDelete", MaxStoreDeletes, MaxCalls) /\ ContentStoreDelete(id)
  \/ \E f \in Files : Budget("edit", MaxEdit, MaxCalls) /\ ExternalEdit(f)

Spec == Init /\ [][Next]_vars

----------------------------------------------------------------------------
\* Runs of signFile and updateAndSign alone on one artifact, one call at a time

InitChain == Init /\ config = CfgAuth

NextChain ==
  \/ \E f \in UpdateTargets :
       Budget("sign", MaxChainCalls, MaxChainCalls) /\ SignFile(f, NoIdentity)
  \/ \E f \in UpdateTargets, c \in Contents, id \in Identities :
       Budget("update", MaxChainCalls, MaxChainCalls)
       /\ UpdateAndSign(f, c, id, ConcProvenance, FALSE)

SpecChain == InitChain /\ [][NextChain]_vars

----------------------------------------------------------------------------
\* Calls made by concurrent requests: a call suspends at each await, and the
\* steps of different calls interleave

ConcContents == Contents

CommitPcs ==
  {"u_writeFile", "u_storeMeta", "u_storeContent", "u_append", "u_readChain", "u_audit"}

InitConc == Init /\ config = CfgAuth

Begin(t, call) ==
  /\ ~InProgress(t)
  /\ count.calls < MaxConcCalls
  /\ count' = [count EXCEPT !.calls = @ + 1]
  /\ tasks' = [tasks EXCEPT ![t] = call]
  /\ disturbed' = (disturbed \/ \E u \in Tasks : tasks[u].pc # "done")
  /\ UNCHANGED <<config, live, sigMeta, sigContent, chains, audit, csSignatures,
                 csContents, now, last>>

BeginSign(t, filePath) == Begin(t, NewSign(filePath, NoIdentity))

BeginUpdate(t, filePath, newContent) ==
  Begin(t, NewUpdate(filePath, newContent, OWNER, ConcProvenance, FALSE))

TaskStep(t) ==
  /\ InProgress(t)
  /\ LET r == Step(World, config, tasks[t])
     IN  /\ SetWorld(r.w)
         /\ tasks' = [tasks EXCEPT ![t] = r.t]
         /\ last' = IF r.t.pc = "done" THEN Returned(r.t) ELSE last
  /\ UNCHANGED <<config, count, disturbed>>

\* The process of a call is killed between two writes of its commit
Interrupt(t) ==
  /\ InProgress(t)
  /\ tasks[t].pc \in CommitPcs \ {"u_writeFile"}
  /\ tasks' = [tasks EXCEPT ![t] = [stopped |-> tasks[t].pc]
                                    @@ [tasks[t] EXCEPT !.pc = "interrupted"]]
  /\ UNCHANGED <<config, live, sigMeta, sigContent, chains, audit, csSignatures,
                 csContents, now, last, count, disturbed>>

NextConc ==
  \/ \E t \in Tasks, f \in UpdateTargets : BeginSign(t, f)
  \/ \E t \in Tasks, f \in UpdateTargets, c \in ConcContents : BeginUpdate(t, f, c)
  \/ \E t \in Tasks : TaskStep(t)
  \/ \E t \in Tasks : Interrupt(t)

SpecConc == InitConc /\ [][NextConc]_vars

----------------------------------------------------------------------------
\* The gate of updateAndSign, stated stage by stage over the stores at the call

Policy(filePath) == resolveFilePolicy(config, filePath)

Authorized(filePath, identity) ==
  LET allowed == authorizedIdentities(Policy(filePath))
  IN  Len(allowed) = 0
      \/ \E i \in 1..Len(allowed) : matchesIdentityPattern(allowed[i], identity)

SourceVerifies(w, provenance) ==
  IF provenance.sourceType = "signed_message"
  THEN contentStoreVerify(w, provenance.sourceId).verified
  ELSE verifyFile(w, provenance.sourceId).result.verified

Codes ==
  <<"not_mutable", "not_signed", "unauthorized_identity", "unsigned_source",
    "source_verification_failed">>

StageFails(i, filePath, identity, provenance, contentStore) ==
  CASE i = 1 -> ~truthy(Policy(filePath), "mutable")
    [] i = 2 -> filePath \notin DOMAIN sigMeta
    [] i = 3 -> ~Authorized(filePath, identity)
    [] i = 4 -> truthy(Policy(filePath), "requireSignedSource") /\ provenance.sourceId = <<>>
    [] i = 5 -> /\ truthy(Policy(filePath), "requireSignedSource")
                /\ provenance.sourceId # <<>>
                /\ (provenance.sourceType = "signed_message" => contentStore)
                /\ ~SourceVerifies(World, provenance)

LastResult == last.result[1]

LastOptions == last.options[1]

Denied == last.op = "updateAndSign" /\ ~LastResult.approved

Approved == last.op = "updateAndSign" /\ LastResult.approved

LastAudit == audit[Len(audit)]

\* C1: the denial code an updateAndSign call returns is the code of the earliest
\* stage, in the order not_mutable, not_signed, unauthorized_identity,
\* unsigned_source, source_verification_failed, that fails on the stores as they
\* are at the call; no later stage supplies the code.
C1_FirstFailingStage ==
  [][Denied' =>
       LET f  == LastResult'.file
           id == LastOptions'.identity
           p  == LastOptions'.provenance
           cs == LastOptions'.contentStore
       IN  \E i \in 1..5 :
             /\ LastResult'.code = Codes[i]
             /\ StageFails(i, f, id, p, cs)
             /\ \A j \in 1..(i - 1) : ~StageFails(j, f, id, p, cs)]_vars

\* A request that fails stages 1 to 4 at once has been denied with not_mutable
C1_Witness ==
  /\ Denied
  /\ LastResult.code = "not_mutable"
  /\ config = CfgLocked
  /\ SOUL \notin DOMAIN sigMeta
  /\ LastOptions.identity = ATTACKER
  /\ LastOptions.provenance.sourceId = <<>>

\* C2: updateAndSign approves, and a chain grows, only in a call made while the
\* artifact's policy is mutable, a Signature record exists for it and the
\* caller's identity is authorized; no artifact whose policy is not mutable, or
\* which has no 'sign' event in its history, ever has a chain entry.
C2_ApprovalNeedsGate ==
  /\ [][(Approved' \/ chains' # chains) =>
          LET f == LastResult'.file
          IN  /\ Approved'
              /\ truthy(Policy(f), "mutable")
              /\ f \in DOMAIN sigMeta
              /\ Authorized(f, LastOptions'.identity)
              /\ \A g \in Files \ {f} : readChain(World', g) = readChain(World, g)]_vars
  /\ [](\A f \in Files :
          readChain(World, f) # <<>> =>
            /\ truthy(Policy(f), "mutable")
            /\ \E i \in 1..Len(audit) : audit[i].event = "sign" /\ audit[i].file = f)

\* An update was approved under a policy that names the identities it admits
C2_Witness ==
  /\ Approved
  /\ Len(authorizedIdentities(Policy(SOUL))) > 0
  /\ Len(readChain(World, SOUL)) = 1
  /\ LastOptions.identity = OWNER

\* C3: when the policy sets requireSignedSource, an approved update names a
\* source that verifies in the content store or as a signed template; a call
\* given no content store handle is approved only with signed_template
\* provenance.
C3_SourceIndependentlyVerified ==
  (Approved /\ truthy(Policy(LastResult.file), "requireSignedSource")) =>
    LET provenance == LastOptions.provenance
    IN  /\ provenance.sourceId # <<>>
        /\ SourceVerifies(World, provenance)
        /\ (~LastOptions.contentStore => provenance.sourceType = "signed_template")

\* C4: a denied updateAndSign leaves the live file, the Signature record, the
\* stored signed content and the chain of every artifact as they were; the
\* audit log keeps all it had and only grows.
C4_DeniedLeavesStores ==
  [][Denied' =>
       /\ live' = live
       /\ sigMeta' = sigMeta
       /\ sigContent' = sigContent
       /\ chains' = chains
       /\ csSignatures' = csSignatures
       /\ csContents' = csContents
       /\ Len(audit') > Len(audit)
       /\ SubSeq(audit', 1, Len(audit)) = audit]_vars

\* An update of a signed artifact that already has a chain was denied
C4_Witness ==
  /\ Denied
  /\ SOUL \in DOMAIN sigMeta
  /\ readChain(World, SOUL) # <<>>
  /\ live[SOUL] = sigContent[SOUL]

DeniedEntries(log) == SelectSeq(log, LAMBDA e : e.event = "update_denied")

\* C5: a denied updateAndSign appends exactly one 'update_denied' entry to the
\* audit log, for the target file and with the caller's identity and the
\* provenance attempted, and appends nothing to any chain.
C5_OneDeniedEntry ==
  [][Denied' =>
       /\ Len(audit') > Len(audit)
       /\ DeniedEntries(audit') = Append(DeniedEntries(audit), LastAudit')
       /\ LastAudit'.event = "update_denied"
       /\ LastAudit'.file = LastResult'.file
       /\ LastAudit'.identity = LastOptions'.identity
       /\ LastAudit'.provenance = Some(LastOptions'.provenance)
       /\ \A f \in Files : readChain(World', f) = readChain(World, f)]_vars

\* Two updates were denied, one of them after its template failed to verify
C5_Witness ==
  /\ Denied
  /\ Len(DeniedEntries(audit)) = 2
  /\ LastResult.code = "source_verification_failed"
  /\ \E i \in 1..Len(audit) : audit[i].event = "verify-fail"

\* The digest recorded by the latest 'sign' event for the file that precedes
\* the first 'update' event for it in the audit log
SignsBeforeFirstUpdate(filePath) ==
  LET updates == {i \in 1..Len(audit) : audit[i].event = "update" /\ audit[i].file = filePath}
      first == CHOOSE i \in updates : \A j \in updates : i <= j
  IN  {i \in 1..(first - 1) : audit[i].event = "sign" /\ audit[i].file = filePath}

HeadBeforeFirstUpdate(filePath) ==
  LET signs == SignsBeforeFirstUpdate(filePath)
  IN  audit[CHOOSE i \in signs : \A j \in signs : j <= i].hash

C7_ChainAppendOnly ==
  [][\A f \in Files :
       LET before == readChain(World, f)
           after == readChain(World', f)
       IN  /\ Len(before) <= Len(after)
           /\ SubSeq(after, 1, Len(before)) = before]_vars

\* A Signature was deleted while its artifact had a chain
C7_Witness ==
  /\ last.op = "deleteSig"
  /\ SOUL \notin DOMAIN sigMeta
  /\ Len(readChain(World, SOUL)) > 0

\* C8: right after an approved updateAndSign the live file and the stored
\* signed content are the new content, the Signature record has its digest and
\* the caller's identity, the chain's last entry has that digest with the old
\* Signature's hash as previousHash, the audit log ends with a new 'update'
\* entry, and verifyFile then returns verified with chain.lastUpdatedBy the
\* caller's identity.
C8_ApprovedPostState ==
  [][Approved' =>
       LET f == LastResult'.file
           id == LastOptions'.identity
           entries == readChain(World', f)
           v == verifyFile(World', f).result
       IN  /\ \E c \in Contents :
                /\ UpdateAndSign(f, c, id, LastOptions'.provenance, LastOptions'.contentStore)
                /\ live'[f] = c
                /\ sigContent'[f] = c
                /\ sigMeta'[f].hash = digest(c)
           /\ sigMeta'[f].signedBy = id
           /\ entries = Append(readChain(World, f), entries[Len(entries)])
           /\ entries[Len(entries)].hash = sigMeta'[f].hash
           /\ entries[Len(entries)].previousHash = sigMeta[f].hash
           /\ entries[Len(entries)].signedBy = id
           /\ Len(audit') > Len(audit)
           /\ SubSeq(audit', 1, Len(audit)) = audit
           /\ LastAudit'.event = "update"
           /\ LastAudit'.file = f
           /\ LastAudit'.hash = sigMeta'[f].hash
           /\ LastResult'.chainLength = Len(entries)
           /\ v.verified
           /\ v.chain # None
           /\ v.chain[1].lastUpdatedBy = id
           /\ v.chain[1].length = Len(entries)]_vars

\* An approved update changed the content of an artifact and verifyFile accepts it
C8_Witness ==
  /\ Approved
  /\ LastResult.hash # LastResult.previousHash
  /\ verifyFile(World, SOUL).result.verified
  /\ verifyFile(World, SOUL).result.chain[1].lastUpdatedBy = OWNER

----------------------------------------------------------------------------
\* The commit of updateAndSign as other callers and an interruption find it

\* A call of updateAndSign that has passed the gate and not yet returned
Committing(t) ==
  /\ tasks[t].op = "updateAndSign"
  /\ tasks[t].pc # "done"
  /\ tasks[t].chainEntry # None

\* The four writes of the commit, each as a reader of the stores finds it
LiveWritten(t) == live[tasks[t].file] = tasks[t].newContent

SignatureWritten(t) ==
  /\ tasks[t].file \in DOMAIN sigMeta
  /\ sigMeta[tasks[t].file] = newSig(tasks[t])

ContentWritten(t) ==
  /\ tasks[t].file \in DOMAIN sigContent
  /\ sigContent[tasks[t].file] = tasks[t].newContent

EntryAppended(t) ==
  LET entries == readChain(World, tasks[t].file)
  IN  Len(entries) > 0 /\ entries[Len(entries)] = tasks[t].chainEntry[1]

ChangesContent(t) == tasks[t].chainEntry[1].hash # tasks[t].existingSig[1].hash

\* The number of commit writes a call has made where it stands or was stopped
Progress(t) ==
  LET pc == IF tasks[t].pc = "interrupted" THEN tasks[t].stopped ELSE tasks[t].pc
  IN  CASE pc = "u_writeFile" -> 0
        [] pc = "u_storeMeta" -> 1
        [] pc = "u_storeContent" -> 2
        [] pc = "u_append" -> 3
        [] OTHER -> 4

\* C9 as claimed: no state that another caller can read, and none left by an
\* interruption, shows some but not all of the four commit writes of an
\* approved update that changes the content.
C9_CommitAtomic ==
  \A t \in Tasks :
    (Committing(t) /\ ChangesContent(t) /\ ~disturbed) =>
      \/ LiveWritten(t) /\ SignatureWritten(t) /\ ContentWritten(t) /\ EntryAppended(t)
      \/ ~LiveWritten(t) /\ ~SignatureWritten(t) /\ ~ContentWritten(t) /\ ~EntryAppended(t)

\* C9: the commit of an approved update is four writes made one after the other,
\* the live file, then the Signature record, then the stored signed content, then
\* the chain entry; while calls do not overlap, a call that has made k of them,
\* running or interrupted there, shows exactly the first k, the others still
\* holding what the call found, and all four from the chain append on.
C9_CommitInOrder ==
  \A t \in Tasks :
    (Committing(t) /\ ~disturbed) =>
      LET k == Progress(t)
          f == tasks[t].file
          old == tasks[t].existingSig[1]
      IN  /\ k >= 1 => LiveWritten(t)
          /\ k < 1 => digest(live[f]) = old.hash
          /\ k >= 2 => SignatureWritten(t)
          /\ k < 2 => sigMeta[f] = old
          /\ k >= 3 => ContentWritten(t)
          /\ k < 3 => digest(sigContent[f]) = old.hash
          /\ k >= 4 <=> EntryAppended(t)

\* An update that changes the content was stopped after it rewrote the live
\* file and the Signature record, and before it stored the content
C9_Witness ==
  \E t \in Tasks :
    /\ Committing(t) /\ ~disturbed /\ ChangesContent(t)
    /\ tasks[t].pc = "interrupted"
    /\ tasks[t].stopped = "u_storeContent"
    /\ LiveWritten(t) /\ SignatureWritten(t) /\ ~ContentWritten(t) /\ ~EntryAppended(t)

\* Two updateAndSign calls on one artifact that read the same head Signature
\* and were both approved
Raced(t, u) ==
  /\ t # u
  /\ tasks[t].op = "updateAndSign" /\ tasks[u].op = "updateAndSign"
  /\ tasks[t].pc = "done" /\ tasks[u].pc = "done"
  /\ tasks[t].result[1].approved /\ tasks[u].result[1].approved
  /\ tasks[t].file = tasks[u].file
  /\ tasks[t].existingSig = tasks[u].existingSig

\* C10 as claimed: when two approved updates read the same head, both entries
\* are in the chain, the one appended second has the pre-update head as its
\* previousHash, and validateChain reports the chain invalid.
C10_RaceDetected ==
  \A t, u \in Tasks :
    Raced(t, u) =>
      LET entries == readChain(World, tasks[t].file)
          n == Len(entries)
      IN  /\ n >= 2
          /\ {entries[n - 1], entries[n]} = {tasks[t].chainEntry[1], tasks[u].chainEntry[1]}
          /\ entries[n].previousHash = tasks[t].existingSig[1].hash
          /\ ~validateChain(World, tasks[t].file).valid

\* C10: when two approved updates read the same head, both entries are in the
\* chain and both have the pre-update head as previousHash; validateChain
\* reports the chain invalid, at the second of the two, when the update appended
\* first changed the digest, and when it wrote the content the head already had
\* the two entries are linked and the chain validates as it did before them.
C10_RaceDetectedIfDigestMoved ==
  \A t, u \in Tasks :
    Raced(t, u) =>
      LET f == tasks[t].file
          entries == readChain(World, f)
          n == Len(entries)
          head == tasks[t].existingSig[1].hash
          v == validateChain(World, f)
      IN  /\ n >= 2
          /\ {entries[n - 1], entries[n]} = {tasks[t].chainEntry[1], tasks[u].chainEntry[1]}
          /\ entries[n - 1].previousHash = head
          /\ entries[n].previousHash = head
          /\ v.length = n
          /\ entries[n - 1].hash # head => ~v.valid
          /\ (entries[n - 1].hash # head /\ validateEntries(SubSeq(entries, 1, n - 1)).valid)
               => v.error = Some(<<n - 1, entries[n - 1].hash, head>>)
          /\ entries[n - 1].hash = head
               => v.valid = validateEntries(SubSeq(entries, 1, n - 1)).valid

\* Two updates raced, the first appended changed the digest, and validateChain
\* reports the break
C10_Witness ==
  \E t, u \in Tasks :
    /\ Raced(t, u)
    /\ ChangesContent(t) /\ ChangesContent(u)
    /\ Len(readChain(World, SOUL)) = 2
    /\ ~validateChain(World, SOUL).valid

----------------------------------------------------------------------------
\* The Signature Store under calls that interleave

\* No call stands between the two writes of storeSig, and none was stopped
StoreQuiet ==
  \A t \in Tasks : tasks[t].pc \notin {"s_storeContent", "u_storeContent", "interrupted"}

\* C11: in every state with no storeSig write in progress, reached by signFile
\* and approved updateAndSign calls interleaved in any way, each Signature
\* record's hash is the digest of the content stored beside it and its
\* contentLength is that content's byte length.
C11_SignatureMatchesStoredContent ==
  StoreQuiet =>
    \A f \in DOMAIN sigMeta :
      /\ f \in DOMAIN sigContent
      /\ sigMeta[f].hash = digest(sigContent[f])
      /\ sigMeta[f].contentLength = byteLength(sigContent[f])

----------------------------------------------------------------------------
\* Records of the stores changed from outside the library, and the calls that
\* read them afterwards

AllContents == Contents \cup {EditedContent}

BogusHash == formatHash(<<"hex", "WRONG">>)

CheckFile(filePath) ==
  /\ last' = Outcome("checkFile", Some(checkFile(World, filePath)))
  /\ UNCHANGED <<config, live, sigMeta, sigContent, chains, audit, csSignatures,
                 csContents, now, tasks, disturbed>>

ValidateChain(filePath) ==
  /\ last' = Outcome("validateChain",
                     Some([file |-> filePath] @@ validateChain(World, filePath)))
  /\ UNCHANGED <<config, live, sigMeta, sigContent, chains, audit, csSignatures,
                 csContents, now, tasks, disturbed>>

\* verifyFile has just returned verified for the file
JustVerified(filePath) ==
  /\ last.op = "verifyFile"
  /\ last.result[1].file = filePath
  /\ last.result[1].verified

\* The live file of an artifact that verifies is changed
MutateLive(filePath, content) ==
  /\ JustVerified(filePath)
  /\ content # live[filePath]
  /\ live' = Put(live, filePath, content)
  /\ last' = Outcome("mutateLive", Some([file |-> filePath]))
  /\ UNCHANGED <<config, sigMeta, sigContent, chains, audit, csSignatures, csContents,
                 now, tasks, disturbed>>

\* The content record stored with the Signature of an artifact that verifies
\* is changed
MutateStored(filePath, content) ==
  /\ JustVerified(filePath)
  /\ filePath \in DOMAIN sigContent
  /\ content # sigContent[filePath]
  /\ sigContent' = Put(sigContent, filePath, content)
  /\ last' = Outcome("mutateStored", Some([file |-> filePath]))
  /\ UNCHANGED <<config, live, sigMeta, chains, audit, csSignatures, csContents,
                 now, tasks, disturbed>>

\* The Signature metadata record is overwritten with bytes that are not JSON
CorruptSig(filePath) ==
  /\ filePath \in DOMAIN sigMeta
  /\ parses(sigMeta[filePath])
  /\ sigMeta' = Put(sigMeta, filePath, Unparsable)
  /\ last' = Outcome("corruptSig", Some([file |-> filePath]))
  /\ UNCHANGED <<config, live, sigContent, chains, audit, csSignatures, csContents,
                 now, tasks, disturbed>>

CorruptKinds == {"hash", "previousHash", "unparsable", "lost"}

corrupted(lines, kind, i) ==
  CASE kind = "hash" -> [lines EXCEPT ![i].hash = BogusHash]
    [] kind = "previousHash" -> [lines EXCEPT ![i].previousHash = BogusHash]
    [] kind = "unparsable" -> [lines EXCEPT ![i] = Unparsable]
    [] kind = "lost" -> SubSeq(lines, 1, i - 1) \o SubSeq(lines, i + 1, Len(lines))

\* One record of a chain file whose lines all parse is changed or lost
CorruptChain(filePath, kind, i) ==
  LET lines == chainLines(World, filePath)
  IN  /\ i \in 1..Len(lines)
      /\ \A j \in 1..Len(lines) : parses(lines[j])
      /\ chains' = Put(chains, filePath, corrupted(lines, kind, i))
      /\ last' = Outcome("corruptChain",
                         Some([file |-> filePath, kind |-> kind, index |-> i]))
      /\ UNCHANGED <<config, live, sigMeta, sigContent, audit, csSignatures, csContents,
                     now, tasks, disturbed>>

InitIntegrity == Init /\ config = CfgAuth

NextIntegrity ==
  \/ \E f \in UpdateTargets :
       Budget("write", MaxWrites, MaxIntegrityCalls) /\ SignFile(f, NoIdentity)
  \/ \E f \in UpdateTargets, c \in Contents :
       Budget("write", MaxWrites, MaxIntegrityCalls)
       /\ UpdateAndSign(f, c, OWNER, ConcProvenance, FALSE)
  \/ \E f \in UpdateTargets : Budget("read", MaxReads, MaxIntegrityCalls) /\ VerifyFile(f)
  \/ \E f \in UpdateTargets : Budget("read", MaxReads, MaxIntegrityCalls) /\ CheckFile(f)
  \/ \E f \in UpdateTargets :
       Budget("read", MaxReads, MaxIntegrityCalls) /\ ValidateChain(f)
  \/ \E f \in UpdateTargets, c \in AllContents :
       Budget("corrupt", MaxCorruptions, MaxIntegrityCalls) /\ MutateLive(f, c)
  \/ \E f \in UpdateTargets, c \in AllContents :
       Budget("corrupt", MaxCorruptions, MaxIntegrityCalls) /\ MutateStored(f, c)
  \/ \E f \in UpdateTargets :
       Budget("corrupt", MaxCorruptions, MaxIntegrityCalls) /\ CorruptSig(f)
  \/ \E f \in UpdateTargets, kind \in CorruptKinds, i \in 1..MaxWrites :
       Budget("corrupt", MaxCorruptions, MaxIntegrityCalls) /\ CorruptChain(f, kind, i)

SpecIntegrity == InitIntegrity /\ [][NextIntegrity]_vars

----------------------------------------------------------------------------
\* Tampering and corruption

Tampered == last.op \in {"mutateLive", "mutateStored"}

\* C12: after any change to the content held for an artifact that verified,
\* whether to its live file or to the content record stored with its Signature,
\* the next verifyFile of that artifact reports not verified.
C12_TamperDetected ==
  Tampered => ~verifyFile(World, LastResult.file).result.verified

\* The stores with the Signature record of a file absent
NeverSigned(w, filePath) == [w EXCEPT !.sigMeta = Remove(@, filePath)]

CorruptedDetail == "Signature file is corrupted or tampered with"

\* C13: when the Signature record of a file does not parse, loadSig reports
\* 'corrupted', verifyFile and checkFile report a corrupted record, and
\* updateAndSign does not answer as it answers for a file that was never signed.
C13_CorruptedNotUnsigned ==
  \A f \in DOMAIN sigMeta :
    ~parses(sigMeta[f]) =>
      /\ loadSig(World, f).error = Some("corrupted")
      /\ verifyFile(World, f).result.error = Some(CorruptedDetail)
      /\ checkFile(World, f).status = "corrupted"
      /\ \A c \in Contents :
           updateAndSign(World, config, f, c, OWNER, ConcProvenance, FALSE).t.result
             # updateAndSign(NeverSigned(World, f), config, f, c, OWNER, ConcProvenance,
                             FALSE).t.result

\* C14: once a record of a non-empty chain has had its hash or previousHash
\* changed, has been made unparseable or has been lost, validateChain reports
\* the chain invalid, never valid and never empty.
C14_CorruptionReported ==
  last.op = "corruptChain" => ~validateChain(World, LastResult.file).valid

\* A step of one of the read operations
ReadStep(op) == last'.op = op /\ count'.read = count.read + 1

\* The call that has just returned found an integrity failure
FailureFound(l) ==
  \/ l.op = "verifyFile"
     /\ (~l.result[1].verified \/ (l.result[1].chain # None /\ ~l.result[1].chain[1].valid))
  \/ l.op = "checkFile" /\ l.result[1].status \in {"modified", "corrupted"}
  \/ l.op = "validateChain" /\ ~l.result[1].valid

\* C15 as stated: every verifyFile, checkFile or validateChain call that finds
\* an integrity failure appends a record to the audit log.
C15_EveryFailureLogged ==
  [][(\E op \in {"verifyFile", "checkFile", "validateChain"} : ReadStep(op))
       /\ FailureFound(last')
     => Len(audit') > Len(audit)]_vars

\* C15: an integrity failure is returned as a structured result; verifyFile
\* appends exactly one audit entry for the file per call, 'verify-fail' when the
\* digest differs or the Signature record is corrupted or missing and 'verify'
\* when the digest matches, a broken chain link included; checkFile and
\* validateChain append nothing to the audit log.
C15_FailuresReturnedVerifyLogged ==
  [][/\ ReadStep("verifyFile") =>
          LET f == LastResult'.file
          IN  /\ audit' = Append(audit, LastAudit')
              /\ LastAudit'.file = f
              /\ LastAudit'.event =
                   IF LastResult'.verified THEN "verify" ELSE "verify-fail"
              /\ LastResult'.verified <=>
                   /\ f \in DOMAIN sigMeta
                   /\ parses(sigMeta[f])
                   /\ f \in DOMAIN live
                   /\ digest(live[f]) = sigMeta[f].hash
              /\ ~LastResult'.verified => LastResult'.error # None
              /\ (f \in DOMAIN sigMeta /\ ~parses(sigMeta[f]))
                   => LastResult'.error = Some(CorruptedDetail)
              /\ LastResult'.chain # None =>
                   LastResult'.chain[1].valid = validateChain(World, f).valid
     /\ ReadStep("checkFile") =>
          LET f == LastResult'.file
          IN  /\ audit' = audit
              /\ (f \in DOMAIN sigMeta /\ ~parses(sigMeta[f]))
                   => LastResult'.status = "corrupted"
              /\ (f \in DOMAIN sigMeta /\ parses(sigMeta[f])
                  /\ digest(live[f]) # sigMeta[f].hash)
                   => LastResult'.status = "modified"
     /\ ReadStep("validateChain") =>
          LET entries == readChain(World, LastResult'.file)
          IN  /\ audit' = audit
              /\ (\E i \in 2..Len(entries) : entries[i].previousHash # entries[i - 1].hash)
                   => ~LastResult'.valid
    ]_vars

\* verifyFile has found a broken chain link behind a digest that matches
C15_Witness ==
  /\ last.op = "verifyFile"
  /\ LastResult.verified
  /\ LastResult.chain # None
  /\ ~LastResult.chain[1].valid
  /\ LastAudit.event = "verify"

----------------------------------------------------------------------------
\* Updates under requireSignedSource, with every kind of source and of
\* content-store handle

BadId == <<"m", "/", "1">>

Escaping == <<".", ".", "/", "t">>

StoreHandles == {"none", "memory", "persistent"}

Request(filePath, identity, provenance, store) ==
  [file |-> filePath, identity |-> identity, provenance |-> provenance, store |-> store]

SourceRequests ==
  {Request(SOUL, OWNER, Provenance("signed_message", id), store) :
     id \in {<<>>, M1, BadId}, store \in StoreHandles}
  \cup {Request(SOUL, OWNER, Provenance("signed_template", id), "none") :
          id \in {<<>>, TPL, Escaping}}
  \cup {Request(SOUL, ATTACKER, Provenance("signed_message", M1), "memory"),
        Request(TPL, OWNER, Provenance("signed_message", M1), "memory")}

UpdateVia(filePath, newContent, identity, provenance, store) ==
  /\ LET r == RunToEnd(World, config,
                       NewUpdateVia(filePath, newContent, identity, provenance, store))
     IN  SetWorld(r.w) /\ last' = Returned(r.t)
  /\ UNCHANGED <<config, tasks, disturbed>>

PersistentSign(id, content, identity) ==
  /\ IF ~ensureValidId(id)
     THEN /\ last' = Outcome("persistent.sign", Some([id |-> id, thrown |-> "Invalid content ID"]))
          /\ UNCHANGED <<live, sigMeta, sigContent, chains, audit, csSignatures,
                         csContents, now>>
     ELSE /\ SetWorld(persistentSign(World, content, id, identity))
          /\ last' = Outcome("persistent.sign",
                             Some([id |-> id, signature |-> csSignatures'[metaPath(id)]]))
  /\ UNCHANGED <<config, tasks, disturbed>>

InitSource == Init /\ config = CfgSource

NextSource ==
  \/ \E f \in Files : Budget("sign", MaxSign, MaxSourceCalls) /\ SignFile(f, OWNER)
  \/ \E r \in SourceRequests :
       Budget("update", MaxUpdate, MaxSourceCalls)
       /\ UpdateVia(r.file, "c2", r.identity, r.provenance, r.store)
  \/ \E id \in MessageIds :
       Budget("store", MaxStoreOps, MaxSourceCalls) /\ ContentStoreSign(id, "c1", OWNER)
  \/ \E id \in MessageIds :
       Budget("store", MaxStoreOps, MaxSourceCalls) /\ PersistentSign(id, "c1", OWNER)
  \/ Budget("edit", MaxEdit, MaxSourceCalls) /\ ExternalEdit(TPL)

SpecSource == InitSource /\ [][NextSource]_vars

UpdateStep == last'.op = "updateAndSign" /\ count'.update = count.update + 1

Returns(result) == "approved" \in DOMAIN result

Throws(result) == "thrown" \in DOMAIN result

FiveCodes == {Codes[i] : i \in 1..5}

\* C16 as stated: every updateAndSign call on a target inside the project root
\* returns an approval or a denial carrying one of the five codes.
C16_AlwaysOneOutcome ==
  last.op = "updateAndSign" =>
    /\ Returns(LastResult)
    /\ LastResult.approved \/ LastResult.code \in FiveCodes

\* The source stage is reached and its check raises a structural error
SourceCheckThrows(o) ==
  /\ o.provenance.sourceId # <<>>
  /\ \/ /\ o.provenance.sourceType = "signed_template"
        /\ o.provenance.sourceId = Escaping
     \/ /\ o.provenance.sourceType = "signed_message"
        /\ o.persistent
        /\ o.provenance.sourceId = BadId

\* C16: every updateAndSign call on a target inside the project root ends in
\* exactly one of an approval, a denial carrying one of the five codes, or a
\* thrown structural error; it throws exactly when stages 1 to 3 pass,
\* requireSignedSource is set and the signed_template sourceId escapes the
\* project root or the signed_message sourceId is not a valid identifier for
\* the persistent store handle supplied, and then nothing has been written.
C16_OutcomeOrStructuralError ==
  [][UpdateStep =>
       LET r == LastResult'
           o == LastOptions'
           reached == /\ \A j \in 1..3 : ~StageFails(j, o.file, o.identity, o.provenance,
                                                     o.contentStore)
                      /\ truthy(Policy(o.file), "requireSignedSource")
       IN  IF Throws(r)
           THEN /\ ~Returns(r)
                /\ reached /\ SourceCheckThrows(o)
                /\ UNCHANGED <<live, sigMeta, sigContent, chains, audit, csSignatures,
                               csContents>>
           ELSE /\ Returns(r)
                /\ r.approved \/ r.code \in FiveCodes
                /\ ~(reached /\ SourceCheckThrows(o))]_vars

\* An update has thrown at the source stage
C16_Witness == last.op = "updateAndSign" /\ Throws(LastResult)

\* A record signed under the key verifies against the content stored with it
StoreHolds(key) ==
  /\ key \in DOMAIN csSignatures
  /\ key \in DOMAIN csContents
  /\ digest(csContents[key]) = csSignatures[key].hash

\* The live file matches a Signature record that parses
FileVerifies(f) ==
  /\ f \in DOMAIN sigMeta
  /\ parses(sigMeta[f])
  /\ f \in DOMAIN live
  /\ digest(live[f]) = sigMeta[f].hash

\* The source named by the request verifies on the stores as they are
SourceSucceeds(o) ==
  IF o.provenance.sourceType = "signed_message"
  THEN IF o.persistent
       THEN o.provenance.sourceId # BadId /\ StoreHolds(metaPath(o.provenance.sourceId))
       ELSE StoreHolds(o.provenance.sourceId)
  ELSE o.provenance.sourceId # Escaping /\ FileVerifies(o.provenance.sourceId)

\* The request reaches the source check: requireSignedSource is set, stages 1
\* to 3 pass, a sourceId is present and signed_message comes with a store handle
SourceChecked(o) ==
  /\ truthy(Policy(o.file), "requireSignedSource")
  /\ \A j \in 1..4 : ~StageFails(j, o.file, o.identity, o.provenance, o.contentStore)
  /\ o.provenance.sourceType = "signed_message" => o.contentStore

\* C17 as stated: a request that reaches the source check is approved when
\* the store's verify(sourceId), or verifyFile(sourceId) for a template,
\* succeeds on the stores as they are at the call, and is denied
\* source_verification_failed otherwise.
C17_ApprovedIffSourceVerifies ==
  [][(UpdateStep /\ SourceChecked(LastOptions')) =>
       /\ Returns(LastResult')
       /\ IF SourceSucceeds(LastOptions')
          THEN LastResult'.approved
          ELSE ~LastResult'.approved /\ LastResult'.code = "source_verification_failed"
    ]_vars

\* C17: a request that reaches the source check with a sourceId the check
\* accepts as an identifier or path is approved when the store's
\* verify(sourceId), or verifyFile(sourceId) for a template, succeeds on the
\* stores as they are at the call, and is denied source_verification_failed
\* otherwise; when the check rejects the sourceId the call throws. A request
\* denied for a message not in the store is approved, with chain length 1,
\* when retried after the message is signed.
C17_ApprovedIffSourceVerifiesOrThrows ==
  [][(UpdateStep /\ SourceChecked(LastOptions')) =>
       IF SourceCheckThrows(LastOptions')
       THEN Throws(LastResult')
       ELSE /\ Returns(LastResult')
            /\ IF SourceSucceeds(LastOptions')
               THEN /\ LastResult'.approved
                    /\ LastResult'.chainLength = Len(readChain(World, LastOptions'.file)) + 1
               ELSE /\ ~LastResult'.approved
                    /\ LastResult'.code = "source_verification_failed"
    ]_vars

\* The retry of a request that was denied for its unsigned message is approved
C17_Witness ==
  /\ last.op = "updateAndSign"
  /\ Returns(LastResult)
  /\ LastResult.approved
  /\ LastResult.chainLength = 1
  /\ LastOptions.provenance = Provenance("signed_message", M1)
  /\ LastOptions.contentStore
  /\ \E i \in 1..Len(audit) :
       /\ audit[i].event = "update_denied"
       /\ audit[i].file = LastResult.file
       /\ audit[i].provenance = Some(LastOptions.provenance)
       /\ audit[i].detail[1][1] = "ContentStore verification failed"

----------------------------------------------------------------------------
\* validateChain over chains of any entries

TestHashes == {formatHash(<<"hex", h>>) : h \in {"000", "aaa", "bbb"}}

makeEntry(hash, previousHash) ==
  [hash |-> hash, previousHash |-> previousHash, signedBy |-> OWNER, signedAt |-> 0,
   contentLength |-> 100, provenance |-> [sourceType |-> "signed_message",
                                          reason |-> "test update"]]

AppendChainEntry(filePath, entry) ==
  /\ SetWorld(appendChainEntry(World, filePath, entry))
  /\ last' = Outcome("appendChainEntry", None)
  /\ UNCHANGED <<config, tasks, disturbed>>

InitValidate == Init /\ config = DEFAULT_CONFIG

NextValidate ==
  \/ \E hash \in TestHashes, previousHash \in TestHashes :
       Budget("write", MaxEntries, MaxValidateCalls)
       /\ AppendChainEntry(SOUL, makeEntry(hash, previousHash))
  \/ Budget("read", MaxReads, MaxValidateCalls) /\ ValidateChain(SOUL)

SpecValidate == InitValidate /\ [][NextValidate]_vars

\* The positions, counted from 0, of the entries that do not link to the
\* entry before them
BrokenLinks(entries) ==
  {i \in 1..(Len(entries) - 1) : entries[i + 1].previousHash # entries[i].hash}

\* C18: validateChain returns valid with length 0 when the file has no chain
\* entries; otherwise invalid at the smallest position i >= 1 whose previousHash
\* differs from the hash of the entry before it, the error naming i and both
\* hashes; otherwise valid with length the number of entries.
C18_ValidateChain ==
  last.op = "validateChain" =>
    LET entries == chainLines(World, LastResult.file)
        n == Len(entries)
    IN  IF n = 0
        THEN LastResult.valid /\ LastResult.length = 0
        ELSE IF BrokenLinks(entries) # {}
        THEN \E i \in BrokenLinks(entries) :
               /\ \A j \in BrokenLinks(entries) : i <= j
               /\ ~LastResult.valid
               /\ LastResult.length = n
               /\ LastResult.error =
                    Some(<<i, entries[i].hash, entries[i + 1].previousHash>>)
        ELSE LastResult.valid /\ LastResult.length = n /\ LastResult.error = None

\* A chain of three entries broken at positions 1 and 2 has been reported
\* broken at position 1
C18_Witness ==
  /\ last.op = "validateChain"
  /\ Len(chainLines(World, LastResult.file)) = 3
  /\ BrokenLinks(chainLines(World, LastResult.file)) = {1, 2}
  /\ ~LastResult.valid
  /\ LastResult.error[1][1] = 1

----------------------------------------------------------------------------
\* resolveFilePolicy and matchesIdentityPattern over configurations, paths,
\* patterns and identities

FilePatterns == {SOUL, <<"*", ".", "m">>, <<"s", ".", "*">>, <<"*">>}

\* A policy that tells which pattern it was configured for; the policy of '*'
\* leaves mutable out
PolicyOf(pattern) ==
  IF pattern = <<"*">> THEN [authorizedIdentities |-> <<pattern>>]
  ELSE [mutable |-> TRUE, authorizedIdentities |-> <<pattern>>]

PatternLists ==
  UNION {{ps \in [1..n -> FilePatterns] : \A i, j \in 1..n : ps[i] = ps[j] => i = j} :
           n \in 0..MaxPatterns}

PolicyConfigs ==
  {DEFAULT_CONFIG}
  \cup {[version |-> 1, signIdentity |-> None,
         files |-> Some([i \in DOMAIN ps |-> <<ps[i], PolicyOf(ps[i])>>])] :
          ps \in PatternLists}

PolicyPaths == {SOUL, TPL, <<"x", ".", "m">>}

IdentityPatterns ==
  {OWNER, <<"o", "*">>, <<"o", "*", "x">>, <<"*", "a">>, <<"*">>, <<"o", "*", "*">>}

PolicyIdentities == {OWNER, ATTACKER, <<"o", "b", "x">>, <<"o", "*", "a">>}

ResolveFilePolicy(filePath) ==
  /\ last' = Outcome("resolveFilePolicy",
                     Some([file |-> filePath,
                           policy |-> resolveFilePolicy(config, filePath)]))
  /\ UNCHANGED <<config, live, sigMeta, sigContent, chains, audit, csSignatures,
                 csContents, now, tasks, disturbed>>

MatchesIdentityPattern(pattern, identity) ==
  /\ last' = Outcome("matchesIdentityPattern",
                     Some([pattern |-> pattern, identity |-> identity,
                           matches |-> matchesIdentityPattern(pattern, identity)]))
  /\ UNCHANGED <<config, live, sigMeta, sigContent, chains, audit, csSignatures,
                 csContents, now, tasks, disturbed>>

InitPolicy == config \in PolicyConfigs /\ InitStores

NextPolicy ==
  \/ \E f \in PolicyPaths : Budget("read", MaxReads, MaxPolicyCalls) /\ ResolveFilePolicy(f)
  \/ \E pattern \in IdentityPatterns, identity \in PolicyIdentities :
       Budget("read", MaxReads, MaxPolicyCalls) /\ MatchesIdentityPattern(pattern, identity)

SpecPolicy == InitPolicy /\ [][NextPolicy]_vars

ConfiguredEntries == IF config.files = None THEN <<>> ELSE config.files[1]

\* The entries whose pattern equals the path
ExactEntries(filePath) ==
  {i \in 1..Len(ConfiguredEntries) : ConfiguredEntries[i][1] = filePath}

\* The entries whose wildcard pattern matches the path
WildcardEntries(filePath) ==
  {i \in 1..Len(ConfiguredEntries) :
     /\ includes(ConfiguredEntries[i][1], "*")
     /\ matchesFilePattern(ConfiguredEntries[i][1], filePath)}

\* The wildcard entries that match with a pattern no shorter than any other
LongestEntries(filePath) ==
  {i \in WildcardEntries(filePath) :
     \A j \in WildcardEntries(filePath) :
       Len(ConfiguredEntries[j][1]) <= Len(ConfiguredEntries[i][1])}

Merged(i) == ConfiguredEntries[i][2] @@ [mutable |-> FALSE]

\* C19 as stated: resolveFilePolicy returns the policy of the pattern equal to
\* the path if there is one; otherwise the policy of the longest wildcard
\* pattern that matches, whichever place it has in the configuration;
\* otherwise the default policy with mutable = false and nothing else.
C19_LongestWinsAnyOrder ==
  last.op = "resolveFilePolicy" =>
    LET f == LastResult.file
    IN  IF ExactEntries(f) # {}
        THEN \A i \in ExactEntries(f) : LastResult.policy = Merged(i)
        ELSE IF WildcardEntries(f) # {}
        THEN \A i \in LongestEntries(f) : LastResult.policy = Merged(i)
        ELSE LastResult.policy = [mutable |-> FALSE]

\* C19: resolveFilePolicy returns the policy of the pattern equal to the path
\* if there is one; otherwise the policy of the longest wildcard pattern that
\* matches, and of the first configured among several of that length;
\* otherwise the default policy with mutable = false and nothing else.
C19_LongestWinsFirstOnTie ==
  last.op = "resolveFilePolicy" =>
    LET f == LastResult.file
    IN  IF ExactEntries(f) # {}
        THEN \A i \in ExactEntries(f) : LastResult.policy = Merged(i)
        ELSE IF WildcardEntries(f) # {}
        THEN \E i \in LongestEntries(f) :
               /\ \A j \in LongestEntries(f) : i <= j
               /\ LastResult.policy = Merged(i)
        ELSE LastResult.policy = [mutable |-> FALSE]

\* Two wildcard patterns of the same length match behind a shorter one that
\* comes first, and the policy returned is that of the first of the two
C19_Witness ==
  /\ last.op = "resolveFilePolicy"
  /\ ExactEntries(LastResult.file) = {}
  /\ LongestEntries(LastResult.file) = {2, 3}
  /\ WildcardEntries(LastResult.file) = {1, 2, 3}
  /\ LastResult.policy = Merged(2)

\* C20: matchesIdentityPattern is true exactly when the pattern has no '*' and
\* equals the identity, or the pattern ends in '*' and the identity starts with
\* the text before that '*'; a '*' anywhere else grants no match.
C20_ExactOrTrailingWildcard ==
  last.op = "matchesIdentityPattern" =>
    LET pattern == LastResult.pattern
        identity == LastResult.identity
    IN  LastResult.matches <=>
          \/ ~includes(pattern, "*") /\ pattern = identity
          \/ /\ pattern # <<>>
             /\ pattern[Len(pattern)] = "*"
             /\ startsWith(identity, SubSeq(pattern, 1, Len(pattern) - 1))

----------------------------------------------------------------------------
\* verifyFile over every condition of the live file and of the records kept
\* for it

\* The live file is unlinked
RemoveLive(filePath) ==
  /\ filePath \in DOMAIN live
  /\ live' = Remove(live, filePath)
  /\ last' = Outcome("removeLive", Some([file |-> filePath]))
  /\ UNCHANGED <<config, sigMeta, sigContent, chains, audit, csSignatures, csContents,
                 now, tasks, disturbed>>

\* The content record stored with the Signature is unlinked
RemoveStored(filePath) ==
  /\ filePath \in DOMAIN sigContent
  /\ sigContent' = Remove(sigContent, filePath)
  /\ last' = Outcome("removeStored", Some([file |-> filePath]))
  /\ UNCHANGED <<config, live, sigMeta, chains, audit, csSignatures, csContents,
                 now, tasks, disturbed>>

InitVerify == InitStores /\ config = CfgAuth

NextVerify ==
  \/ \E f \in UpdateTargets :
       Budget("write", MaxWrites, MaxVerifyCalls) /\ SignFile(f, NoIdentity)
  \/ \E f \in UpdateTargets, c \in Contents :
       Budget("write", MaxWrites, MaxVerifyCalls)
       /\ UpdateAndSign(f, c, OWNER, ConcProvenance, FALSE)
  \/ \E f \in UpdateTargets : Budget("read", MaxReads, MaxVerifyCalls) /\ VerifyFile(f)
  \/ \E f \in UpdateTargets, c \in AllContents :
       Budget("corrupt", MaxCorruptions, MaxVerifyCalls) /\ MutateLive(f, c)
  \/ \E f \in UpdateTargets, c \in AllContents :
       Budget("corrupt", MaxCorruptions, MaxVerifyCalls) /\ MutateStored(f, c)
  \/ \E f \in UpdateTargets :
       Budget("corrupt", MaxCorruptions, MaxVerifyCalls) /\ ExternalEdit(f)
  \/ \E f \in UpdateTargets :
       Budget("corrupt", MaxCorruptions, MaxVerifyCalls) /\ RemoveLive(f)
  \/ \E f \in UpdateTargets :
       Budget("corrupt", MaxCorruptions, MaxVerifyCalls) /\ RemoveStored(f)
  \/ \E f \in UpdateTargets :
       Budget("corrupt", MaxCorruptions, MaxVerifyCalls) /\ CorruptSig(f)

SpecVerify == InitVerify /\ [][NextVerify]_vars

\* The error verifyFile is to report for the file on the stores as they are
ExpectedError(f) ==
  IF f \notin DOMAIN sigMeta THEN "No signature found"
  ELSE IF ~parses(sigMeta[f]) THEN CorruptedDetail
  ELSE IF f \notin DOMAIN live THEN "File not found"
  ELSE "Content has been modified since signing"

\* C21: verifyFile returns verified exactly when a Signature that parses
\* exists for the path, the live file exists and its digest equals the
\* Signature's hash; when verified the template is the content that was signed,
\* the stored record and not the live file, with the signer and the time of
\* signing; when not verified there is no template and the error tells apart
\* no signature, corrupted signature, file not found and modified content.
C21_VerifyFile ==
  last.op = "verifyFile" =>
    LET f == LastResult.file
        r == LastResult
    IN  /\ r.verified <=> FileVerifies(f)
        /\ r.verified =>
             /\ r.template # None
             /\ digest(r.template[1]) = sigMeta[f].hash
             /\ f \in DOMAIN sigContent => r.template = Some(sigContent[f])
             /\ r.signedBy = sigMeta[f].signedBy
             /\ r.signedAt = Some(sigMeta[f].signedAt)
        /\ ~r.verified =>
             /\ r.template = None
             /\ r.error = Some(ExpectedError(f))

----------------------------------------------------------------------------
\* The audit log under the calls that write it and the call that reads it

ReadAuditLog(file) ==
  /\ last' = Outcome("readAuditLog",
                     Some([file |-> file, entries |-> readAuditLog(World, file)]))
  /\ UNCHANGED <<config, live, sigMeta, sigContent, chains, audit, csSignatures,
                 csContents, now, tasks, disturbed>>

InitAudit == InitStores /\ config = CfgAuth

NextAudit ==
  \/ \E f \in Files : Budget("sign", MaxSign, MaxAuditCalls) /\ SignFile(f, NoIdentity)
  \/ \E c \in Contents, id \in Identities :
       Budget("update", MaxUpdate, MaxAuditCalls)
       /\ UpdateAndSign(SOUL, c, id, ConcProvenance, FALSE)
  \/ \E f \in Files : Budget("verify", MaxVerify, MaxAuditCalls) /\ VerifyFile(f)
  \/ \E f \in Files : Budget("edit", MaxEdit, MaxAuditCalls) /\ ExternalEdit(f)
  \/ \E file \in {<<>>} \cup Files :
       Budget("read", MaxReads, MaxAuditCalls) /\ ReadAuditLog(file)

SpecAudit == InitAudit /\ [][NextAudit]_vars

\* A step of the call counted under the key
CallStep(key) == count'[key] = count[key] + 1

\* The log after the step is the log before it with entries added at the end
Appended == Len(audit') >= Len(audit) /\ SubSeq(audit', 1, Len(audit)) = audit

\* C22: no step removes or changes an earlier audit entry; every completed
\* signFile appends a 'sign' entry, every verifyFile a 'verify' or
\* 'verify-fail' entry according to its result, every approved updateAndSign
\* an 'update' entry and every denied one an 'update_denied' entry, each for
\* the file of the call; readAuditLog returns the entries in the order they
\* were appended, those of one file when a file is given.
C22_AuditAppendOnlyComplete ==
  [][/\ Appended
     /\ CallStep("sign") =>
          /\ Len(audit') > Len(audit)
          /\ LastAudit'.event = "sign"
          /\ LastAudit'.file = LastResult'.file
          /\ LastAudit'.hash = LastResult'.hash
     /\ CallStep("verify") =>
          /\ Len(audit') > Len(audit)
          /\ LastAudit'.event = IF LastResult'.verified THEN "verify" ELSE "verify-fail"
          /\ LastAudit'.file = LastResult'.file
     /\ CallStep("update") =>
          /\ Len(audit') > Len(audit)
          /\ LastAudit'.event = IF LastResult'.approved THEN "update" ELSE "update_denied"
          /\ LastAudit'.file = LastResult'.file
     /\ CallStep("read") =>
          /\ audit' = audit
          /\ LET entries == LastResult'.entries
                 kept == {i \in 1..Len(audit) :
                            LastResult'.file = <<>> \/ audit[i].file = LastResult'.file}
             IN  /\ Len(entries) = Cardinality(kept)
                 /\ \A k \in 1..Len(entries) :
                      \E i \in kept :
                        /\ entries[k] = audit[i]
                        /\ Cardinality({j \in kept : j < i}) = k - 1
    ]_vars

\* readAuditLog for one file has returned two of its entries and left out an
\* entry of the other file
C22_Witness ==
  /\ last.op = "readAuditLog"
  /\ LastResult.file = SOUL
  /\ Len(LastResult.entries) = 2
  /\ Len(audit) = 3
  /\ \E i \in 1..2 : audit[i].file = TPL

----------------------------------------------------------------------------
\* The persistent content store: its operations and changes made to its
\* records from outside

EmptyId == <<>>

DotDotId == <<".", ".">>

PersistentIds == {M1, BadId, DotDotId, EmptyId}

\* An operation that ends in ensureValidId's error
RejectsId(op, id) ==
  /\ last' = Outcome(op, Some([id |-> id, thrown |-> "Invalid content ID"]))
  /\ UNCHANGED <<live, sigMeta, sigContent, chains, audit, csSignatures, csContents, now>>

SignIfChanged(id, content, identity) ==
  /\ IF ~ensureValidId(id) THEN RejectsId("persistent.signIfChanged", id)
     ELSE LET r == signIfChanged(World, content, id, identity)
          IN  /\ SetWorld(r.w)
              /\ last' = Outcome("persistent.signIfChanged",
                                 Some([id |-> id, content |-> content,
                                       identity |-> identity, signature |-> r.signature]))
  /\ UNCHANGED <<config, tasks, disturbed>>

PersistentVerify(id, content) ==
  /\ LET r == persistentVerifyWith(World, id, content)
     IN  IF r.thrown # None THEN RejectsId("persistent.verify", id)
         ELSE /\ SetWorld(r.w)
              /\ last' = Outcome("persistent.verify",
                                 Some([supplied |-> content] @@ r.result))
  /\ UNCHANGED <<config, tasks, disturbed>>

PersistentDelete(id) ==
  /\ IF ~ensureValidId(id) THEN RejectsId("persistent.delete", id)
     ELSE /\ SetWorld(persistentDelete(World, id))
          /\ last' = Outcome("persistent.delete",
                             Some([id |-> id,
                                   hadSig |-> metaPath(id) \in DOMAIN csSignatures]))
  /\ UNCHANGED <<config, tasks, disturbed>>

PersistentTamperKinds == {"content", "noContent", "unparsable"}

\* A record of the store is changed, removed or made unparseable from outside
PersistentTamper(id, kind, content) ==
  /\ metaPath(id) \in DOMAIN csSignatures
  /\ metaPath(id) \in DOMAIN csContents
  /\ parses(csSignatures[metaPath(id)])
  /\ content # csContents[metaPath(id)]
  /\ CASE kind = "content" ->
            csContents' = Put(csContents, metaPath(id), content)
            /\ UNCHANGED csSignatures
       [] kind = "noContent" ->
            csContents' = Remove(csContents, metaPath(id)) /\ UNCHANGED csSignatures
       [] kind = "unparsable" ->
            csSignatures' = Put(csSignatures, metaPath(id), Unparsable)
            /\ UNCHANGED csContents
  /\ last' = Outcome("persistent.tamper", Some([id |-> id, kind |-> kind]))
  /\ UNCHANGED <<config, live, sigMeta, sigContent, chains, audit, now, tasks, disturbed>>

InitPersistent == InitStores /\ config = DEFAULT_CONFIG

NextPersistent ==
  \/ \E id \in PersistentIds, c \in Contents, identity \in Identities :
       Budget("write", MaxWrites, MaxPersistentCalls) /\ PersistentSign(id, c, identity)
  \/ \E id \in PersistentIds, c \in Contents, identity \in Identities :
       Budget("write", MaxWrites, MaxPersistentCalls) /\ SignIfChanged(id, c, identity)
  \/ \E id \in PersistentIds, content \in {None} \cup {Some(c) : c \in Contents} :
       Budget("read", MaxReads, MaxPersistentCalls) /\ PersistentVerify(id, content)
  \/ \E id \in PersistentIds :
       Budget("delete", MaxDelete, MaxPersistentCalls) /\ PersistentDelete(id)
  \/ \E id \in PersistentIds, kind \in PersistentTamperKinds :
       Budget("corrupt", MaxCorruptions, MaxPersistentCalls)
       /\ PersistentTamper(id, kind, EditedContent)

SpecPersistent == InitPersistent /\ [][NextPersistent]_vars

SignIfChangedStep ==
  /\ last'.op = "persistent.signIfChanged"
  /\ CallStep("write")
  /\ ~Throws(LastResult')

\* C23: when a valid signature record exists for the id whose hash is the
\* digest of the content, signIfChanged returns that record as it is, whatever
\* identity is supplied, and leaves the signature record untouched; otherwise it
\* issues a new signature, for the identity supplied and at the time of the
\* call, and the stored content becomes the content given.
C23_SignIfChangedIdempotent ==
  [][SignIfChangedStep =>
       LET r == LastResult'
           key == metaPath(r.id)
           unchanged == /\ key \in DOMAIN csSignatures
                        /\ parses(csSignatures[key])
                        /\ csSignatures[key].hash = digest(r.content)
       IN  IF unchanged
           THEN /\ r.signature = csSignatures[key]
                /\ csSignatures' = csSignatures
                /\ audit' = audit
                /\ key \in DOMAIN csContents => csContents' = csContents
           ELSE /\ r.signature.hash = digest(r.content)
                /\ r.signature.signedBy = r.identity
                /\ r.signature.signedAt = now
                /\ csSignatures'[key] = r.signature
                /\ csContents'[key] = r.content
    ]_vars

\* signIfChanged has returned, to a caller with another identity, the
\* signature issued earlier for the same content
C23_Witness ==
  /\ last.op = "persistent.signIfChanged"
  /\ ~Throws(LastResult)
  /\ LastResult.signature.signedBy # LastResult.identity
  /\ LastResult.signature.hash = digest(LastResult.content)
  /\ LastResult.signature.signedAt < now - 1

PersistentVerifyStep ==
  /\ last'.op = "persistent.verify"
  /\ CallStep("read")
  /\ ~Throws(LastResult')

\* C26: PersistentContentStore.verify(id) returns verified exactly when a
\* valid signature record and a content record exist for the id, the digest of
\* the stored content is the signature's hash and so is the digest of the
\* content the caller supplies, if any; a failure returns no content and a
\* reason, which is "No signature found for id" exactly when there is no valid
\* signature record and "Content hash mismatch" when the stored content no
\* longer matches its signature; every outcome appends one verify or
\* verify-fail entry for the id to the audit log.
C26_PersistentVerify ==
  [][PersistentVerifyStep =>
       LET r == LastResult'
           key == metaPath(r.id)
           hasSignature == key \in DOMAIN csSignatures /\ parses(csSignatures[key])
           hasContent == key \in DOMAIN csContents
           storedMatches == digest(csContents[key]) = csSignatures[key].hash
           suppliedMatches ==
             r.supplied # None => digest(r.supplied[1]) = csSignatures[key].hash
           reason == IF ~hasSignature THEN "No signature found for id"
                     ELSE IF ~hasContent THEN "No content found for id"
                     ELSE "Content hash mismatch"
       IN  /\ r.verified <=>
                hasSignature /\ hasContent /\ storedMatches /\ suppliedMatches
           /\ r.verified =>
                /\ r.content = Some(csContents[key])
                /\ r.signature = Some(csSignatures[key])
                /\ r.error = None
           /\ ~r.verified =>
                /\ r.content = None /\ r.signature = None
                /\ r.error = Some(reason)
           /\ Len(audit') = Len(audit) + 1
           /\ SubSeq(audit', 1, Len(audit)) = audit
           /\ audit'[Len(audit')].event = IF r.verified THEN "verify" ELSE "verify-fail"
           /\ audit'[Len(audit')].file = auditFile(r.id)
           /\ csSignatures' = csSignatures /\ csContents' = csContents
    ]_vars

\* A verify has failed on stored content that no longer matches its signature,
\* after an earlier verify of the same id failed for want of a signature
C26_Witness ==
  /\ last.op = "persistent.verify"
  /\ ~Throws(LastResult)
  /\ ~LastResult.verified
  /\ LastResult.error = Some("Content hash mismatch")
  /\ LastResult.supplied = None
  /\ \E i \in 1..Len(audit) - 1 :
       /\ audit[i].event = "verify-fail"
       /\ audit[i].file = auditFile(LastResult.id)
       /\ audit[i].detail = Some(<<"No signature found for id">>)

----------------------------------------------------------------------------
\* Calls with the ids and paths as the caller writes them

BackslashId == <<"a", "\\", "b">>

NulId == <<"b", "NUL", "d">>

InvalidIds == {BadId, DotDotId, EmptyId, BackslashId, NulId}

StructuralIds == {M1} \cup InvalidIds

DottedSoul == <<".", "/", "s", ".", "m">>

DeepEscaping == <<"p", "/", ".", ".", "/", ".", ".", "/", "t">>

EscapingPaths == {Escaping, DeepEscaping}

StructuralPaths == {SOUL, DottedSoul} \cup EscapingPaths

\* What a call with a path leaves: the value returned or the error thrown, and
\* the path as it was passed
PathOutcome(op, filePath, result) ==
  [op |-> op, result |-> result, options |-> Some([path |-> filePath])]

RejectsPath(op, filePath) ==
  /\ last' = PathOutcome(op, filePath, Some([thrown |-> "Path escapes project root"]))
  /\ UNCHANGED <<live, sigMeta, sigContent, chains, audit, csSignatures, csContents, now>>

SignFileAt(filePath, identity) ==
  /\ LET relPath == resolveContainedPath(filePath)
     IN  IF relPath = None THEN RejectsPath("signFile", filePath)
         ELSE LET r == signFile(World, config, relPath[1], identity)
              IN  SetWorld(r.w) /\ last' = PathOutcome("signFile", filePath, r.t.result)
  /\ UNCHANGED <<config, tasks, disturbed>>

VerifyFileAt(filePath) ==
  /\ LET relPath == resolveContainedPath(filePath)
     IN  IF relPath = None THEN RejectsPath("verifyFile", filePath)
         ELSE LET r == verifyFile(World, relPath[1])
              IN  SetWorld(r.w) /\ last' = PathOutcome("verifyFile", filePath, Some(r.result))
  /\ UNCHANGED <<config, tasks, disturbed>>

CheckFileAt(filePath) ==
  /\ LET relPath == resolveContainedPath(filePath)
     IN  IF relPath = None THEN RejectsPath("checkFile", filePath)
         ELSE /\ last' = PathOutcome("checkFile", filePath,
                                     Some(checkFile(World, relPath[1])))
              /\ UNCHANGED <<live, sigMeta, sigContent, chains, audit, csSignatures,
                             csContents, now>>
  /\ UNCHANGED <<config, tasks, disturbed>>

UpdateAndSignAt(filePath, newContent, identity, provenance) ==
  /\ LET relPath == resolveContainedPath(filePath)
     IN  IF relPath = None THEN RejectsPath("updateAndSign", filePath)
         ELSE LET r == updateAndSign(World, config, relPath[1], newContent, identity,
                                     provenance, FALSE)
              IN  SetWorld(r.w) /\ last' = PathOutcome("updateAndSign", filePath, r.t.result)
  /\ UNCHANGED <<config, tasks, disturbed>>

PersistentReads == {"persistent.load", "persistent.loadContent", "persistent.has"}

\* load, loadContent and has: the id is checked, then the records are read
PersistentRead(op, id) ==
  /\ IF ~ensureValidId(id) THEN RejectsId(op, id)
     ELSE /\ last' = Outcome(op, Some([id |-> id,
                 value |-> CASE op = "persistent.load" -> persistentLoad(World, id)
                             [] op = "persistent.loadContent" ->
                                  persistentLoadContent(World, id)
                             [] OTHER ->
                                  Some(metaPath(id) \in DOMAIN csSignatures)]))
          /\ UNCHANGED <<live, sigMeta, sigContent, chains, audit, csSignatures,
                         csContents, now>>
  /\ UNCHANGED <<config, tasks, disturbed>>

InitStructural == InitStores /\ config = CfgAuth

NextStructural ==
  \/ \E id \in StructuralIds :
       Budget("write", MaxWrites, MaxStructuralCalls) /\ PersistentSign(id, "c1", OWNER)
  \/ \E id \in StructuralIds :
       Budget("write", MaxWrites, MaxStructuralCalls) /\ SignIfChanged(id, "c2", ATTACKER)
  \/ \E id \in StructuralIds :
       Budget("read", MaxReads, MaxStructuralCalls) /\ PersistentVerify(id, None)
  \/ \E id \in StructuralIds, op \in PersistentReads :
       Budget("read", MaxReads, MaxStructuralCalls) /\ PersistentRead(op, id)
  \/ \E id \in StructuralIds :
       Budget("delete", MaxDelete, MaxStructuralCalls) /\ PersistentDelete(id)
  \/ \E filePath \in StructuralPaths :
       Budget("sign", MaxSign, MaxStructuralCalls) /\ SignFileAt(filePath, NoIdentity)
  \/ \E filePath \in StructuralPaths :
       Budget("verify", MaxVerify, MaxStructuralCalls) /\ VerifyFileAt(filePath)
  \/ \E filePath \in StructuralPaths :
       Budget("verify", MaxVerify, MaxStructuralCalls) /\ CheckFileAt(filePath)
  \/ \E filePath \in StructuralPaths :
       Budget("update", MaxUpdate, MaxStructuralCalls)
       /\ UpdateAndSignAt(filePath, "c2", OWNER, ConcProvenance)

SpecStructural == InitStructural /\ [][NextStructural]_vars

PersistentOps ==
  {"persistent.sign", "persistent.signIfChanged", "persistent.verify",
   "persistent.delete"} \cup PersistentReads

FileOps == {"signFile", "verifyFile", "checkFile", "updateAndSign"}

\* C27: a PersistentContentStore operation called with an id that is empty or
\* contains a path separator, '..' or a null byte, and a signFile, verifyFile,
\* checkFile or updateAndSign called with a path that escapes the project
\* root, ends in an error and leaves every live file, Signature, content
\* record, chain and audit log as it was.
C27_StructuralErrorsFirst ==
  [][count'.calls = count.calls + 1 =>
       LET structural ==
             \/ last'.op \in PersistentOps /\ LastResult'.id \in InvalidIds
             \/ last'.op \in FileOps /\ last'.options[1].path \in EscapingPaths
       IN  structural =>
             /\ Throws(LastResult')
             /\ UNCHANGED <<live, sigMeta, sigContent, chains, audit, csSignatures,
                            csContents>>
    ]_vars

\* updateAndSign has thrown for a path that leaves the project root through a
\* directory inside it, with signed records and audit entries in place
C27_Witness ==
  /\ last.op = "updateAndSign"
  /\ Throws(LastResult)
  /\ last.options[1].path = DeepEscaping
  /\ SOUL \in DOMAIN sigMeta
  /\ metaPath(M1) \in DOMAIN csSignatures
  /\ Len(audit) = 2

----------------------------------------------------------------------------
\* The in-memory ContentStore of one session

M2 == <<"m", "2">>

StoreIds == {M1, M2}

StoreSign(id, content, identity) ==
  /\ LET w == contentStoreSign(World, content, id, identity)
     IN  /\ SetWorld(w)
         /\ last' = Outcome("contentStore.sign",
                            Some([id |-> id, content |-> content, identity |-> identity,
                                  signature |-> w.csSignatures[id]]))
  /\ UNCHANGED <<config, tasks, disturbed>>

StoreVerify(id) ==
  /\ last' = Outcome("contentStore.verify",
                     Some(contentStoreVerify(World, id) @@ contentStoreVerified(World, id)))
  /\ UNCHANGED <<config, live, sigMeta, sigContent, chains, audit, csSignatures,
                 csContents, now, tasks, disturbed>>

StoreDelete(id) ==
  /\ SetWorld(contentStoreDelete(World, id))
  /\ last' = Outcome("contentStore.delete",
                     Some([id |-> id, hadSig |-> id \in DOMAIN csSignatures]))
  /\ UNCHANGED <<config, tasks, disturbed>>

StoreClear ==
  /\ SetWorld(contentStoreClear(World))
  /\ last' = Outcome("contentStore.clear", None)
  /\ UNCHANGED <<config, tasks, disturbed>>

\* has, get and size
StoreRead(id) ==
  /\ last' = Outcome("contentStore.read",
                     Some([id |-> id, has |-> contentStoreHas(World, id),
                           get |-> contentStoreGet(World, id),
                           size |-> contentStoreSize(World)]))
  /\ UNCHANGED <<config, live, sigMeta, sigContent, chains, audit, csSignatures,
                 csContents, now, tasks, disturbed>>

InitStore == InitStores /\ config = DEFAULT_CONFIG

NextStore ==
  \/ \E id \in StoreIds, c \in Contents, identity \in Identities :
       Budget("write", MaxWrites, MaxStoreCalls) /\ StoreSign(id, c, identity)
  \/ \E id \in StoreIds :
       Budget("read", MaxReads, MaxStoreCalls) /\ StoreVerify(id)
  \/ \E id \in StoreIds :
       Budget("read", MaxReads, MaxStoreCalls) /\ StoreRead(id)
  \/ \E id \in StoreIds :
       Budget("delete", MaxDelete, MaxStoreCalls) /\ StoreDelete(id)
  \/ Budget("storeDelete", MaxStoreDeletes, MaxStoreCalls) /\ StoreClear

SpecStore == InitStore /\ [][NextStore]_vars

\* What a caller can observe of one id
Observed(w, id) ==
  [has |-> contentStoreHas(w, id), get |-> contentStoreGet(w, id),
   verify |-> contentStoreVerify(w, id) @@ contentStoreVerified(w, id)]

Present(id) == contentStoreHas(World, id)

SignEffect ==
  LET r == LastResult'
  IN  /\ Observed(World', r.id).has
      /\ Observed(World', r.id).get = Some(r.signature)
      /\ Observed(World', r.id).verify.verified
      /\ Observed(World', r.id).verify.content = Some(r.content)
      /\ Observed(World', r.id).verify.signature = Some(r.signature)
      /\ r.signature.hash = digest(r.content)
      /\ r.signature.signedBy = r.identity
      /\ r.signature.signedAt = now
      /\ \A id \in StoreIds \ {r.id} : Observed(World', id) = Observed(World, id)
      /\ contentStoreSize(World') =
           contentStoreSize(World) + IF Present(r.id) THEN 0 ELSE 1

DeleteEffect ==
  LET r == LastResult'
  IN  /\ r.hadSig <=> Present(r.id)
      /\ ~Observed(World', r.id).has
      /\ Observed(World', r.id).get = None
      /\ ~Observed(World', r.id).verify.verified
      /\ \A id \in StoreIds \ {r.id} : Observed(World', id) = Observed(World, id)
      /\ contentStoreSize(World') =
           contentStoreSize(World) - IF Present(r.id) THEN 1 ELSE 0

ClearEffect ==
  /\ \A id \in StoreIds :
       /\ ~Observed(World', id).has
       /\ Observed(World', id).get = None
       /\ ~Observed(World', id).verify.verified
  /\ contentStoreSize(World') = 0

StoreAsMap ==
  /\ contentStoreSize(World) = Cardinality({id \in StoreIds : Present(id)})
  /\ \A id \in StoreIds :
       /\ Present(id) <=> Observed(World, id).get # None
       /\ Present(id) <=> Observed(World, id).verify.verified

\* C24: the ContentStore is a map from id to the last content signed under
\* it.  A sign makes the id present with the new content and signature, which
\* verify and get return, whatever the id held before; a delete returns whether
\* the id was present and makes it absent; a clear makes every id absent; no
\* operation changes what is observed of another id; size is the number of
\* ids present, which are the ids that get and verify answer for.
C24_StoreIsLastSignedMap ==
  /\ []StoreAsMap
  /\ [][/\ last'.op = "contentStore.sign" /\ CallStep("write") => SignEffect
        /\ last'.op = "contentStore.delete" /\ CallStep("delete") => DeleteEffect
        /\ last'.op = "contentStore.clear" /\ CallStep("storeDelete") => ClearEffect
        /\ last'.op \in {"contentStore.verify", "contentStore.read"} /\ CallStep("read") =>
             \A id \in StoreIds : Observed(World', id) = Observed(World, id)
       ]_vars

\* An id signed twice, by two identities with two contents, holds the second
\* content under the second signature
C24_Witness ==
  /\ last.op = "contentStore.sign"
  /\ LastResult.id = M1
  /\ LastResult.content = "c2"
  /\ csContents[M1] = "c2"
  /\ csSignatures[M1].signedBy = ATTACKER
  /\ csSignatures[M1].signedAt = 1
  /\ count.write = 2
  /\ count.calls = 2

\* C25: the signature map and the content map of the ContentStore have the
\* same keys and each signature's hash is the digest of the content under its
\* id, so verify never answers 'No content found for id' or 'Content hash
\* mismatch' and verifies exactly the ids that has answers for.
C25_MapsInStep ==
  /\ DOMAIN csSignatures = DOMAIN csContents
  /\ \A id \in DOMAIN csSignatures : csSignatures[id].hash = digest(csContents[id])
  /\ \A id \in StoreIds :
       /\ contentStoreVerify(World, id).error
            \notin {Some("No content found for id"), Some("Content hash mismatch")}
       /\ contentStoreVerify(World, id).verified <=> contentStoreHas(World, id)

\* One id is left in the store after the other was deleted
C25_Witness ==
  /\ last.op = "contentStore.delete"
  /\ LastResult.hadSig
  /\ Cardinality(DOMAIN csSignatures) = 1
  /\ \E id \in StoreIds : id # LastResult.id /\ contentStoreVerify(World, id).verified

----------------------------------------------------------------------------
\* Configurations that differ in requireApproval alone

ApprovalValues == {"true", "false", "absent"}

SetApproval(policy, v) ==
  LET rest == [f \in DOMAIN policy \ {"requireApproval"} |-> policy[f]]
  IN  IF v = "absent" THEN rest ELSE [requireApproval |-> (v = "true")] @@ rest

\* cfg with requireApproval set to v, or left out, in every file policy
WithApproval(cfg, v) ==
  LET files == cfg.files[1]
  IN  [cfg EXCEPT !.files =
         Some([i \in DOMAIN files |-> <<files[i][1], SetApproval(files[i][2], v)>>])]

InitApproval == InitStores /\ config \in {WithApproval(CfgSource, v) : v \in ApprovalValues}

ApprovalRequests ==
  {Request(SOUL, OWNER, Provenance("signed_message", M1), "memory"),
   Request(SOUL, OWNER, Provenance("signed_message", <<>>), "none"),
   Request(SOUL, ATTACKER, Provenance("signed_message", M1), "memory"),
   Request(TPL, OWNER, Provenance("signed_message", M1), "memory")}

\* An updateAndSign call, leaving also the content it was given
UpdateWith(filePath, newContent, identity, provenance, store) ==
  /\ LET r == RunToEnd(World, config,
                       NewUpdateVia(filePath, newContent, identity, provenance, store))
     IN  /\ SetWorld(r.w)
         /\ last' = [Returned(r.t) EXCEPT
                       !.options = Some([newContent |-> newContent] @@ @[1])]
  /\ UNCHANGED <<config, tasks, disturbed>>

NextApproval ==
  \/ Budget("sign", MaxSign, MaxApprovalCalls) /\ SignFile(SOUL, OWNER)
  \/ \E r \in ApprovalRequests, c \in Contents :
       Budget("update", MaxUpdate, MaxApprovalCalls)
       /\ UpdateWith(r.file, c, r.identity, r.provenance, r.store)
  \/ Budget("store", MaxStoreOps, MaxApprovalCalls) /\ ContentStoreSign(M1, "c1", OWNER)

SpecApproval == InitApproval /\ [][NextApproval]_vars

StoreOf(o) ==
  IF ~o.contentStore THEN "none" ELSE IF o.persistent THEN "persistent" ELSE "memory"

\* C28: an updateAndSign call returns the same result and leaves the same
\* live files, Signatures, content records, chains and audit log as the same
\* call would from the same stores under a configuration that differs only in
\* the value of requireApproval.
C28_RequireApprovalAdvisory ==
  [][UpdateStep =>
       LET o == LastOptions'
           call == NewUpdateVia(o.file, o.newContent, o.identity, o.provenance, StoreOf(o))
       IN  \A v \in ApprovalValues :
             LET r == RunToEnd(World, WithApproval(config, v), call)
             IN  /\ r.t.result = last'.result
                 /\ r.w = World'
    ]_vars

\* An update of a file whose policy sets requireApproval has been approved
\* and written without any approval being given
C28_Witness ==
  /\ last.op = "updateAndSign"
  /\ Returns(LastResult)
  /\ LastResult.approved
  /\ truthy(resolveFilePolicy(loadConfig(config), LastOptions.file), "requireApproval")
  /\ live[LastOptions.file] = LastOptions.newContent

----------------------------------------------------------------------------
\* The four ways of signing, on the same contents under different ids and
\* identities

InitDigest == InitStores /\ config = CfgAuth

NextDigest ==
  \/ \E f \in Files, identity \in Identities :
       Budget("sign", MaxSign, MaxDigestCalls) /\ SignFile(f, identity)
  \/ \E c \in Contents :
       Budget("update", MaxUpdate, MaxDigestCalls)
       /\ UpdateAndSign(SOUL, c, OWNER, ConcProvenance, FALSE)
  \/ \E id \in StoreIds, c \in Contents, identity \in Identities :
       Budget("store", MaxStoreOps, MaxDigestCalls) /\ StoreSign(id, c, identity)
  \/ \E id \in StoreIds, c \in Contents, identity \in Identities :
       Budget("write", MaxWrites, MaxDigestCalls) /\ PersistentSign(id, c, identity)

SpecDigest == InitDigest /\ [][NextDigest]_vars

\* Every digest on record, with the content it was recorded for
Recorded ==
  {<<sigMeta[f].hash, sigContent[f]>> : f \in DOMAIN sigMeta \cap DOMAIN sigContent}
  \cup {<<csSignatures[k].hash, csContents[k]>> :
          k \in DOMAIN csSignatures \cap DOMAIN csContents}

\* C29: the digests recorded by signFile, updateAndSign, ContentStore.sign
\* and PersistentContentStore.sign are a function of the content alone: two
\* records of the same content carry the same digest, under whatever id and
\* identity they were signed, so two different digests are of different
\* contents; every digest is the prefix 'sha256:' followed by the hex digest
\* of the content.
C29_DigestOfContentOnly ==
  /\ \A r1, r2 \in Recorded : r1[2] = r2[2] => r1[1] = r2[1]
  /\ \A r \in Recorded : r[1] = <<"sha256:", "hex", r[2]>>

\* A file and a message of the persistent store, signed by different
\* identities with the same content, carry the same digest, and an in-memory
\* message of other content another
C29_Witness ==
  /\ SOUL \in DOMAIN sigMeta
  /\ metaPath(M1) \in DOMAIN csSignatures
  /\ M2 \in DOMAIN csSignatures
  /\ sigMeta[SOUL].signedBy # csSignatures[metaPath(M1)].signedBy
  /\ sigContent[SOUL] = csContents[metaPath(M1)]
  /\ sigMeta[SOUL].hash = csSignatures[metaPath(M1)].hash
  /\ csSignatures[M2].hash # sigMeta[SOUL].hash

----------------------------------------------------------------------------
\* mcp/server.ts: the verify tool

\* String.prototype.split on a one-character separator
RECURSIVE split(_, _)
split(s, sep) ==
  IF ~includes(s, sep) THEN <<s>>
  ELSE LET i == indexOf(s, sep)
       IN  <<SubSeq(s, 1, i - 1)>> \o split(SubSeq(s, i + 1, Len(s)), sep)

RECURSIVE trimStart(_)
trimStart(s) == IF s # <<>> /\ Head(s) = " " THEN trimStart(Tail(s)) ELSE s

RECURSIVE trimEnd(_)
trimEnd(s) ==
  IF s # <<>> /\ s[Len(s)] = " " THEN trimEnd(SubSeq(s, 1, Len(s) - 1)) ELSE s

trim(s) == trimEnd(trimStart(s))

\* A tool that takes the agent's file when there is one
verifyToolFilesArgFirst(envFiles, file) ==
  IF file # None /\ file[1] # <<>> THEN <<file[1]>>
  ELSE IF envFiles # None /\ envFiles[1] # <<>>
  THEN SelectSeq([i \in DOMAIN split(envFiles[1], ",") |-> trim(split(envFiles[1], ",")[i])],
                 LAMBDA f : f # <<>>)
  ELSE <<>>

\* The files the tool verifies: envFiles is process.env.SIG_VERIFY and file is
\* args.file, each None when it is undefined
verifyToolFiles(envFiles, file) ==
  IF envFiles # None /\ envFiles[1] # <<>>
  THEN SelectSeq([i \in DOMAIN split(envFiles[1], ",") |-> trim(split(envFiles[1], ",")[i])],
                 LAMBDA f : f # <<>>)
  ELSE IF file # None /\ file[1] # <<>> THEN <<file[1]>>
  ELSE <<>>

\* The loop over the files: it stops at the first verifyFile that throws
RECURSIVE verifyEach(_, _, _)
verifyEach(w, files, results) ==
  IF files = <<>> THEN [w |-> w, results |-> results, thrown |-> None]
  ELSE LET relPath == resolveContainedPath(Head(files))
       IN  IF relPath = None
           THEN [w |-> w, results |-> results, thrown |-> Some("Path escapes project root")]
           ELSE LET r == verifyFile(w, relPath[1])
                IN  verifyEach(r.w, Tail(files), Append(results, r.result))

\* The tool's answer: an error object, one VerifyResult or an array of them
verifyTool(w, envFiles, file) ==
  LET files == verifyToolFiles(envFiles, file)
  IN  IF Len(files) = 0
      THEN [w |-> w,
            output |-> [shape |-> "error", results |-> <<>>,
                        error |-> Some("No file specified. Provide a file parameter or set SIG_VERIFY env var.")]]
      ELSE LET r == verifyEach(w, files, <<>>)
           IN  IF r.thrown # None
               THEN [w |-> r.w,
                     output |-> [shape |-> "thrown", results |-> <<>>, error |-> r.thrown]]
               ELSE [w |-> r.w,
                     output |-> [shape |-> IF Len(r.results) = 1 THEN "object" ELSE "array",
                                 results |-> r.results, error |-> None]]

VerifyTool(envFiles, file) ==
  /\ LET r == verifyTool(World, envFiles, file)
     IN  /\ SetWorld(r.w)
         /\ last' = [op |-> "mcp.verify", result |-> Some(r.output),
                     options |-> Some([envFiles |-> envFiles, file |-> file])]
  /\ UNCHANGED <<config, tasks, disturbed>>

EnvOne == <<"s", ".", "m">>

EnvTwo == <<"s", ".", "m", ",", "p", "/", "t">>

EnvSpaced == <<" ", "p", "/", "t", " ", ",", " ", ",", "s", ".", "m">>

EnvComma == <<",">>

\* SIG_VERIFY unset, empty, and set
EnvValues == {None, Some(<<>>), Some(EnvOne), Some(EnvTwo), Some(EnvSpaced), Some(EnvComma)}

FileArgs == {None, Some(<<>>), Some(SOUL), Some(TPL), Some(Escaping)}

InitMcp == InitStores /\ config = CfgAuth

NextMcp ==
  \/ \E f \in Files : Budget("sign", MaxSign, MaxMcpCalls) /\ SignFile(f, NoIdentity)
  \/ \E f \in Files : Budget("edit", MaxEdit, MaxMcpCalls) /\ ExternalEdit(f)
  \/ \E envFiles \in EnvValues, file \in FileArgs :
       Budget("read", MaxReads, MaxMcpCalls) /\ VerifyTool(envFiles, file)

SpecMcp == InitMcp /\ [][NextMcp]_vars

\* The list each SIG_VERIFY value of the model spells
EnvList(env) ==
  CASE env = EnvOne -> <<SOUL>>
    [] env = EnvTwo -> <<SOUL, TPL>>
    [] env = EnvSpaced -> <<TPL, SOUL>>
    [] env = EnvComma -> <<>>

\* C30: when SIG_VERIFY is set (and not empty) the verify tool verifies the
\* files of its comma-separated list, in order, and its answer and its effects
\* are those of the same call with any other file argument; when SIG_VERIFY is
\* unset or empty the tool verifies the file argument, if there is one.
C30_EnvDecidesWhatIsVerified ==
  [][last'.op = "mcp.verify" /\ CallStep("read") =>
       LET o == LastOptions'
           out == LastResult'
           set == o.envFiles # None /\ o.envFiles[1] # <<>>
           expected == IF set THEN EnvList(o.envFiles[1])
                       ELSE IF o.file \in {None, Some(<<>>)} THEN <<>>
                       ELSE <<o.file[1]>>
       IN  /\ out.shape # "thrown" =>
                /\ Len(out.results) = Len(expected)
                /\ \A i \in 1..Len(expected) : out.results[i].file = expected[i]
           /\ out.shape = "error" <=> expected = <<>>
           /\ set => \A file \in FileArgs :
                       /\ verifyTool(World, o.envFiles, file).output = out
                       /\ verifyTool(World, o.envFiles, file).w = World'
    ]_vars

\* With SIG_VERIFY naming two files the tool, asked by the agent for a path
\* outside the project, has answered for the two files and verified the
\* second
C30_Witness ==
  /\ last.op = "mcp.verify"
  /\ LastOptions.envFiles = Some(EnvSpaced)
  /\ LastOptions.file = Some(Escaping)
  /\ LastResult.shape = "array"
  /\ LastResult.results[1].file = TPL
  /\ ~LastResult.results[1].verified
  /\ LastResult.results[2].file = SOUL
  /\ LastResult.results[2].verified

----------------------------------------------------------------------------
\* The chain and the approvals, counted

\* The approved updates of the artifact so far, as the audit log records them
ApprovedUpdates(f) ==
  Len(SelectSeq(audit, LAMBDA e : e.event = "update" /\ e.file = f))

\* C31: with calls run one at a time from an artifact without a chain, an
\* approved updateAndSign adds exactly one entry to the artifact's chain and
\* returns the new number of entries as chainLength, also when the new content
\* is the content already signed (the entry then has hash = previousHash); no
\* other call changes the number of entries; so the chain has as many entries
\* as there were approved updates and the k-th approved update returns k.
C31_ChainCountsApprovals ==
  /\ [](\A f \in Files : Len(readChain(World, f)) = ApprovedUpdates(f))
  /\ [][\A f \in Files :
          LET before == Len(readChain(World, f))
              after == Len(readChain(World', f))
          IN  IF Approved' /\ CallStep("update") /\ LastResult'.file = f
              THEN /\ after = before + 1
                   /\ LastResult'.chainLength = after
                   /\ ApprovedUpdates(f)' = after
                   /\ readChain(World', f)[after].hash = LastResult'.hash
                   /\ readChain(World', f)[after].previousHash = LastResult'.previousHash
              ELSE after = before
       ]_vars

\* The second approved update, of content equal to the signed content, has
\* returned chainLength 2
C31_Witness ==
  /\ Approved
  /\ LastResult.hash = LastResult.previousHash
  /\ LastResult.chainLength = 2
  /\ Len(readChain(World, SOUL)) = 2
  /\ ApprovedUpdates(SOUL) = 2

----------------------------------------------------------------------------
\* matchesFilePattern over patterns and paths in several directories

GlobPatterns ==
  {<<"*", ".", "m">>, <<"*">>, <<"p", "/", "*">>, <<"p", "/", "*", ".", "t">>,
   <<"p", "*", "/", "t">>, <<"*", "/", "t">>, SOUL}

GlobPaths ==
  {SOUL, TPL, <<"x", ".", "t">>, <<"p", "/", "x", ".", "m">>, <<"p", "/", "q", "/", "t">>,
   <<"q", "/", "t">>, <<"p", "q", "/", "t">>, <<"p", "*", "/", "t">>,
   <<"p", "/", "q", "/", "r", ".", "t">>}

MatchesFilePattern(pattern, filePath) ==
  /\ last' = Outcome("matchesFilePattern",
                     Some([pattern |-> pattern, file |-> filePath,
                           matches |-> matchesFilePattern(pattern, filePath)]))
  /\ UNCHANGED <<config, live, sigMeta, sigContent, chains, audit, csSignatures,
                 csContents, now, tasks, disturbed>>

InitPattern == InitStores /\ config = DEFAULT_CONFIG

NextPattern ==
  \E pattern \in GlobPatterns, filePath \in GlobPaths :
    Budget("read", MaxReads, MaxPatternCalls) /\ MatchesFilePattern(pattern, filePath)

SpecPattern == InitPattern /\ [][NextPattern]_vars

\* The segments of a path before its last one
Directory(path) == SubSeq(splitPath(path), 1, Len(splitPath(path)) - 1)

FinalSegment(path) == splitPath(path)[Len(splitPath(path))]

\* C32: a pattern with a wildcard matches a path only if the directory of
\* the path is the directory of the pattern, segment for segment, and the
\* final segment of the path is the final segment of the pattern with each
\* '*' standing for characters of that segment; so it matches no path in
\* another or a deeper directory.
C32_WildcardStaysInDirectory ==
  last.op = "matchesFilePattern" /\ includes(LastResult.pattern, "*") =>
    (LastResult.matches =>
       /\ Directory(LastResult.file) = Directory(LastResult.pattern)
       /\ regexTest(FinalSegment(LastResult.pattern), FinalSegment(LastResult.file)))

\* A wildcard pattern of a directory has matched a file of that directory
C32_Witness ==
  /\ last.op = "matchesFilePattern"
  /\ LastResult.pattern = <<"p", "/", "*">>
  /\ LastResult.file = TPL
  /\ LastResult.matches

----------------------------------------------------------------------------
\* verifyFile called while signFile and updateAndSign calls interleave

NextConcVerify ==
  \/ \E t \in Tasks, f \in UpdateTargets : BeginSign(t, f)
  \/ \E t \in Tasks, f \in UpdateTargets, c \in ConcContents : BeginUpdate(t, f, c)
  \/ \E t \in Tasks : TaskStep(t)
  \/ \E f \in UpdateTargets :
       /\ \A t \in Tasks : ~InProgress(t)
       /\ Budget("verify", MaxVerify, MaxConcCalls)
       /\ VerifyFile(f)

SpecConcVerify == InitConc /\ [][NextConcVerify]_vars

\* C33: whenever verifyFile returns verified, the digest of the template it
\* returns is the hash it returns, in every state reached by signFile and
\* updateAndSign calls, interleaved or not.
C33_TemplateIsAttestedContent ==
  (last.op = "verifyFile" /\ LastResult.verified) =>
    /\ LastResult.template # None
    /\ digest(LastResult.template[1]) = LastResult.hash

----------------------------------------------------------------------------
\* The head of the chain and the head Signature, under signFile, updateAndSign
\* and deleteSig run one at a time

InitHead == InitStores /\ config = CfgAuth

NextHead ==
  \/ \E f \in Files : Budget("sign", MaxSign, MaxHeadCalls) /\ SignFile(f, NoIdentity)
  \/ \E c \in Contents, identity \in Identities :
       Budget("update", MaxUpdate, MaxHeadCalls)
       /\ UpdateAndSign(SOUL, c, identity, ConcProvenance, FALSE)
  \/ \E f \in Files : Budget("delete", MaxDelete, MaxHeadCalls) /\ DeleteSig(f)

SpecHead == InitHead /\ [][NextHead]_vars

----------------------------------------------------------------------------
\* The chain and the 'update' audit entries of an artifact, while signFile and
\* updateAndSign calls interleave and the process of a call may be killed

NextCommit ==
  \/ \E t \in Tasks, f \in UpdateTargets :
       tasks[t].pc # "interrupted" /\ BeginSign(t, f)
  \/ \E t \in Tasks, f \in UpdateTargets, c \in ConcContents :
       tasks[t].pc # "interrupted" /\ BeginUpdate(t, f, c)
  \/ \E t \in Tasks : TaskStep(t)
  \/ \E t \in Tasks : Interrupt(t)

SpecCommit == InitConc /\ [][NextCommit]_vars

\* A call of updateAndSign that has begun and not returned
UpdateInProgress(t) == tasks[t].op = "updateAndSign" /\ tasks[t].pc # "done"

\* The calls on an artifact that have appended their chain entry and not
\* written their audit entry
BetweenAppendAndAudit(f) ==
  {t \in Tasks : /\ UpdateInProgress(t)
                 /\ tasks[t].file = f
                 /\ tasks[t].chainEntry # None
                 /\ Progress(t) = 4}

----------------------------------------------------------------------------
\* signFile and updateAndSign on one artifact, and the records of the others

MaxFrameCalls == 4

\* Both artifacts of the project may be updated, each from a signed source
CfgFrame ==
  [version |-> 1, signIdentity |-> None,
   files |-> Some(<<
     <<<<"*", ".", "m">>, [mutable |-> TRUE, authorizedIdentities |-> <<<<"o", "*">>>>,
                           requireSignedSource |-> TRUE]>>,
     <<<<"p", "/", "*">>, [mutable |-> TRUE, authorizedIdentities |-> <<<<"o", "*">>>>,
                           requireSignedSource |-> TRUE]>> >>)]

InitFrame == InitStores /\ config = CfgFrame

NextFrame ==
  \/ \E f \in Files : Budget("sign", MaxSign, MaxFrameCalls) /\ SignFile(f, OWNER)
  \/ \E f \in Files, source \in Files, c \in Contents, identity \in Identities :
       Budget("update", MaxUpdate, MaxFrameCalls)
       /\ UpdateAndSign(f, c, identity, Provenance("signed_template", source), FALSE)
  \/ \E f \in Files : Budget("edit", MaxEdit, MaxFrameCalls) /\ ExternalEdit(f)

SpecFrame == InitFrame /\ [][NextFrame]_vars

\* The artifact the call that has just returned was made on
Target == IF last.op = "updateAndSign" THEN LastOptions.file ELSE LastResult.file

\* The live file, Signature, stored content and chain of an artifact
RecordsOf(w, f) ==
  [live |-> w.live[f],
   signature |-> loadSig(w, f),
   content |-> loadSignedContent(w, f),
   chain |-> chainLines(w, f)]

\* C36: a signFile or updateAndSign call on an artifact leaves the live file,
\* Signature, stored content and chain of every other artifact as they were,
\* the signed-template source it verifies included; it leaves the content
\* stores as they were, and the audit log after the call is the log before it
\* with entries added at the end.
C36_OtherArtifactsUntouched ==
  [][(CallStep("sign") \/ CallStep("update")) =>
       /\ \A f \in Files \ {Target'} : RecordsOf(World', f) = RecordsOf(World, f)
       /\ Appended
       /\ csSignatures' = csSignatures /\ csContents' = csContents
    ]_vars

\* The second artifact has been updated from the first as its signed template,
\* after the first had itself been updated: the call verified the first and
\* then committed
C36_Witness ==
  /\ Approved
  /\ LastOptions.file = TPL
  /\ LastOptions.provenance.sourceId = SOUL
  /\ Len(chainLines(World, SOUL)) = 1
  /\ Len(chainLines(World, TPL)) = 1
  /\ Len(audit) >= 2
  /\ audit[Len(audit) - 1].event = "verify" /\ audit[Len(audit) - 1].file = SOUL
  /\ LastAudit.event = "update" /\ LastAudit.file = TPL

----------------------------------------------------------------------------
\* mcp/server.ts: the update_and_sign tool

Unknown == <<"u", "n", "k", "n", "o", "w", "n">>

\* process.env.SIG_IDENTITY || args.sourceIdentity || 'unknown': envIdentity
\* and args.sourceIdentity are None when undefined, and an empty string is
\* falsy
updateToolIdentity(envIdentity, args) ==
  IF envIdentity # None /\ envIdentity[1] # <<>> THEN envIdentity[1]
  ELSE IF args.sourceIdentity # None /\ args.sourceIdentity[1] # <<>>
  THEN args.sourceIdentity[1]
  ELSE Unknown

updateToolProvenance(args) ==
  [sourceType |-> args.sourceType,
   sourceId |-> IF args.sourceId = None THEN <<>> ELSE args.sourceId[1],
   sourceIdentity |-> args.sourceIdentity,
   reason |-> args.reason]

\* The tool's handler: updateAndSign with no contentStore
updateTool(w, cfg, envIdentity, args) ==
  updateAndSign(w, cfg, args.file, args.content, updateToolIdentity(envIdentity, args),
                updateToolProvenance(args), FALSE)

UpdateTool(envIdentity, args) ==
  /\ LET r == updateTool(World, config, envIdentity, args)
     IN  /\ SetWorld(r.w)
         /\ last' = [op |-> "mcp.update_and_sign", result |-> r.t.result,
                     options |-> Some([envIdentity |-> envIdentity, args |-> args,
                                       identity |-> r.t.identity])]
  /\ UNCHANGED <<config, tasks, disturbed>>

MaxToolCalls == 3

\* SIG_IDENTITY as the orchestrator may have left it: unset, empty, or a name
EnvIdentities == {None, Some(<<>>), Some(OWNER), Some(ATTACKER)}

\* What an agent may pass as sourceIdentity
SourceIdentityArgs == {None, Some(OWNER), Some(ATTACKER)}

ToolArgs ==
  [file : {SOUL}, content : Contents, reason : {"reason"},
   sourceType : {"signed_message", "signed_template"},
   sourceId : {None, Some(M1)}, sourceIdentity : SourceIdentityArgs]

InitTool == InitStores /\ config = CfgAuth

NextTool ==
  \/ \E f \in Files : Budget("sign", MaxSign, MaxToolCalls) /\ SignFile(f, NoIdentity)
  \/ \E envIdentity \in EnvIdentities, args \in ToolArgs :
       Budget("update", MaxUpdate, MaxToolCalls) /\ UpdateTool(envIdentity, args)

SpecTool == InitTool /\ [][NextTool]_vars

UpdateToolStep == last'.op = "mcp.update_and_sign" /\ CallStep("update")

\* C38: the identity an update_and_sign tool call is checked under, and with
\* it the answer of the call, are those of the same call made with any other
\* sourceIdentity argument: SIG_IDENTITY alone decides them.
C38_IdentityFromEnvironment ==
  [][UpdateToolStep =>
       \A sourceIdentity \in SourceIdentityArgs :
         LET other == updateTool(World, config, LastOptions'.envIdentity,
                                 [LastOptions'.args EXCEPT !.sourceIdentity = sourceIdentity])
         IN  /\ other.t.identity = LastOptions'.identity
             /\ other.t.result[1].approved = LastResult'.approved
    ]_vars

----------------------------------------------------------------------------
\* What verify finds after signIfChanged has returned

\* C37: after signIfChanged(content, {id}) has returned, verify(id) succeeds
\* and returns exactly that content, whatever the store held for the id
\* before the call, a content record that was missing or held other bytes
\* beside a signature of the content's digest included.
C37_VerifiesAfterSignIfChanged ==
  [][SignIfChangedStep =>
       LET r == LastResult'
           v == persistentVerify(World', r.id)
       IN  /\ v.thrown = None
           /\ v.result.verified
           /\ v.result.content = Some(r.content)
    ]_vars

----------------------------------------------------------------------------
\* The artifact a signed-template update names as its source

\* C39: when the policy of the target requires a signed source, an approved
\* update with signed-template provenance names as sourceId an artifact other
\* than its target.
C39_SourceIsAnotherArtifact ==
  (/\ Approved
   /\ truthy(resolveFilePolicy(config, LastOptions.file), "requireSignedSource")
   /\ LastOptions.provenance.sourceType = "signed_template") =>
    resolveContainedPath(LastOptions.provenance.sourceId) # Some(LastOptions.file)

====
